---------------------------- MODULE Spec2Model ----------------------------
(***************************************************************************)
(* A model of pywr/recorders/_recorders.pyx: the Aggregator, the Recorder  *)
(* lifecycle (setup, reset, after, finish) of every recorder class, and    *)
(* the queries values() and aggregated_value().                            *)
(*                                                                         *)
(* Numbers.  A C double is modelled as an exact rational <<n, d>> in       *)
(* lowest terms with d > 0, or one of the three special values             *)
(* NaN = <<0, 0>>, +inf = <<1, 0>>, -inf = <<-1, 0>>.  Rounding is not     *)
(* modelled; NaN and infinity propagate as IEEE-754 and numpy make them.   *)
(* A call that raises is modelled by its exception's name.                 *)
(***************************************************************************)
EXTENDS Integers, Sequences, FiniteSets, TLC

(***************************************************************************)
(* Bounds of the model.                                                    *)
(***************************************************************************)
\* len(model.scenarios.combinations)
NumScenarios == 2
\* the largest len(model.timestepper) a model is built with
MaxTimesteps == 3
\* entity values (flows, volumes, parameter values, indices) are 1..MaxSample
MaxSample == 2
\* the number of runs (reset, after..., finish) the engine makes
MaxRuns == 2
\* the longest vector handed directly to Aggregator.aggregate_1d
MaxLen == 3

Scenarios == 1..NumScenarios

(***************************************************************************)
(* Doubles.                                                                *)
(***************************************************************************)
NaN == <<0, 0>>
PInf == <<1, 0>>
NInf == <<-1, 0>>

Abs(n) == IF n < 0 THEN -n ELSE n

RECURSIVE GCD(_, _)
GCD(a, b) == IF b = 0 THEN a ELSE GCD(b, a % b)

\* the double n/d, d # 0
Norm(n, d) ==
    LET s == IF d < 0 THEN -1 ELSE 1
        g == GCD(Abs(n), Abs(d))
    IN  <<(s * n) \div g, (s * d) \div g>>

F(n) == <<n, 1>>

IsNaN(x) == x = NaN
IsFinite(x) == x[2] # 0
Sign(x) == IF x[1] > 0 THEN 1 ELSE IF x[1] < 0 THEN -1 ELSE 0

FAdd(a, b) ==
    IF IsNaN(a) \/ IsNaN(b) THEN NaN
    ELSE IF ~IsFinite(a) /\ ~IsFinite(b) THEN (IF a = b THEN a ELSE NaN)
    ELSE IF ~IsFinite(a) THEN a
    ELSE IF ~IsFinite(b) THEN b
    ELSE Norm(a[1] * b[2] + b[1] * a[2], a[2] * b[2])

FNeg(a) == <<-a[1], a[2]>>

FSub(a, b) == FAdd(a, FNeg(b))

FMul(a, b) ==
    IF IsNaN(a) \/ IsNaN(b) THEN NaN
    ELSE IF ~IsFinite(a) \/ ~IsFinite(b)
         THEN (IF Sign(a) * Sign(b) = 0 THEN NaN ELSE <<Sign(a) * Sign(b), 0>>)
    ELSE Norm(a[1] * b[1], a[2] * b[2])

\* IEEE division, as numpy performs it: x/0 is an infinity or NaN
FDiv(a, b) ==
    IF IsNaN(a) \/ IsNaN(b) THEN NaN
    ELSE IF ~IsFinite(a) THEN (IF ~IsFinite(b) THEN NaN
                               ELSE <<Sign(a) * (IF Sign(b) < 0 THEN -1 ELSE 1), 0>>)
    ELSE IF ~IsFinite(b) THEN F(0)
    ELSE IF b[1] = 0 THEN (IF a[1] = 0 THEN NaN ELSE <<Sign(a), 0>>)
    ELSE Norm(a[1] * b[2], a[2] * b[1])

\* a < b; every comparison with NaN is false
FLess(a, b) ==
    IF IsNaN(a) \/ IsNaN(b) THEN FALSE
    ELSE IF ~IsFinite(a) \/ ~IsFinite(b)
         THEN (IF ~IsFinite(a) /\ ~IsFinite(b) THEN a[1] < b[1]
               ELSE IF ~IsFinite(a) THEN a[1] < 0
               ELSE b[1] > 0)
    ELSE a[1] * b[2] < b[1] * a[2]

FLeq(a, b) == FLess(a, b) \/ (~IsNaN(a) /\ a = b)

(***************************************************************************)
(* Sequences.                                                              *)
(***************************************************************************)
RECURSIVE SumSeq(_)
SumSeq(s) == IF s = <<>> THEN F(0) ELSE FAdd(Head(s), SumSeq(Tail(s)))

RECURSIVE ProdSeq(_)
ProdSeq(s) == IF s = <<>> THEN F(1) ELSE FMul(Head(s), ProdSeq(Tail(s)))

HasNaN(s) == \E i \in 1..Len(s) : IsNaN(s[i])

\* s in ascending order (insertion sort)
RECURSIVE Insert(_, _)
Insert(x, s) ==
    IF s = <<>> THEN <<x>>
    ELSE IF FLeq(x, Head(s)) THEN <<x>> \o s
    ELSE <<Head(s)>> \o Insert(x, Tail(s))

RECURSIVE Sorted(_)
Sorted(s) == IF s = <<>> THEN <<>> ELSE Insert(Head(s), Sorted(Tail(s)))

(***************************************************************************)
(* The numpy reductions over a 1-D array.  A result is                     *)
(* [err |-> "none", val |-> double] or [err |-> exception, val |-> NaN].   *)
(***************************************************************************)
Ok(x) == [err |-> "none", val |-> x]
Raise(e) == [err |-> e, val |-> NaN]

NpSum(s) == Ok(SumSeq(s))

NpProduct(s) == Ok(ProdSeq(s))

\* the larger / smaller of two doubles; NaN if either is NaN (np.maximum)
FMax2(a, b) == IF IsNaN(a) \/ IsNaN(b) THEN NaN ELSE IF FLess(a, b) THEN b ELSE a

FMin2(a, b) == IF IsNaN(a) \/ IsNaN(b) THEN NaN ELSE IF FLess(b, a) THEN b ELSE a

RECURSIVE MaxSeq(_)
MaxSeq(s) == IF Len(s) = 1 THEN s[1] ELSE FMax2(Head(s), MaxSeq(Tail(s)))

RECURSIVE MinSeq(_)
MinSeq(s) == IF Len(s) = 1 THEN s[1] ELSE FMin2(Head(s), MinSeq(Tail(s)))

\* np.max / np.min of an empty array raise ValueError
NpMax(s) == IF s = <<>> THEN Raise("ValueError") ELSE Ok(MaxSeq(s))

NpMin(s) == IF s = <<>> THEN Raise("ValueError") ELSE Ok(MinSeq(s))

\* np.mean of an empty array is NaN (with a warning)
NpMean(s) == IF s = <<>> THEN Ok(NaN) ELSE Ok(FDiv(SumSeq(s), F(Len(s))))

\* np.median: NaN when empty or when an entry is NaN, else the middle of the
\* sorted array (the mean of the two middle entries for an even length)
NpMedian(s) ==
    IF s = <<>> \/ HasNaN(s) THEN Ok(NaN)
    ELSE LET t == Sorted(s)
             n == Len(s)
         IN  IF n % 2 = 1 THEN Ok(t[(n + 1) \div 2])
             ELSE Ok(FDiv(FAdd(t[n \div 2], t[n \div 2 + 1]), F(2)))

(***************************************************************************)
(* Aggregator.                                                             *)
(***************************************************************************)
\* enum AggFuncs
SUM == 0
MIN == 1
MAX == 2
MEAN == 3
MEDIAN == 4
PRODUCT == 5
CUSTOM == 6

\* _agg_func_lookup
AggFuncLookup ==
    [sum |-> SUM, min |-> MIN, max |-> MAX, mean |-> MEAN, median |-> MEDIAN,
     product |-> PRODUCT, custom |-> CUSTOM]

\* Python values handed to a func / agg_func setter: a string, a callable, or
\* anything else (None, a number)
PyStr(s) == [type |-> "str", v |-> s]
PyCallable(f) == [type |-> "callable", v |-> f]
PyInt(n) == [type |-> "int", v |-> n]
PyNone == [type |-> "NoneType", v |-> 0]
\* the truth value Python gives an int or None
Truthy(x) == x.type = "int" /\ x.v # 0
PyOther(x) == [type |-> "other", v |-> x]

\* str.lower() on the strings of the model
Lower(s) == CASE s = "SUM" -> "sum" [] s = "Mean" -> "mean" [] OTHER -> s

\* the user-supplied callables of the model: np.ptp (max - min), which takes
\* an axis argument as the built-in reductions do
UserCall(f, s) ==
    IF f = "np.ptp" THEN (IF s = <<>> THEN Raise("ValueError") ELSE Ok(FSub(MaxSeq(s), MinSeq(s))))
    ELSE Raise("TypeError")

\* an Aggregator before __init__ has assigned func (cdef int, cdef object)
NewAggregator == [func |-> 0, user_func |-> "None"]

\* Aggregator.func.__set__: the Aggregator afterwards and the exception raised
FuncSet(agg, func) ==
    LET cleared == [agg EXCEPT !.user_func = "None"]
    IN  IF func.type = "str"
        THEN IF Lower(func.v) \in DOMAIN AggFuncLookup
             THEN [agg |-> [cleared EXCEPT !.func = AggFuncLookup[Lower(func.v)]],
                   err |-> "none"]
             ELSE [agg |-> cleared, err |-> "KeyError"]
        ELSE IF func.type = "callable"
        THEN [agg |-> [func |-> CUSTOM, user_func |-> func.v], err |-> "none"]
        ELSE [agg |-> cleared, err |-> "ValueError"]

\* values = np.array(values)[~np.isnan(values)] on a 1-D array
RECURSIVE DropNaN(_)
DropNaN(s) ==
    IF s = <<>> THEN <<>>
    ELSE IF IsNaN(Head(s)) THEN DropNaN(Tail(s))
    ELSE <<Head(s)>> \o DropNaN(Tail(s))

\* the reduction an Aggregator's _func selects, on a 1-D array
Reduce(agg, values) ==
    CASE agg.func = PRODUCT -> NpProduct(values)
      [] agg.func = SUM -> NpSum(values)
      [] agg.func = MAX -> NpMax(values)
      [] agg.func = MIN -> NpMin(values)
      [] agg.func = MEAN -> NpMean(values)
      [] agg.func = MEDIAN -> NpMedian(values)
      [] agg.func = CUSTOM ->
            IF agg.user_func = "None" THEN Raise("TypeError")
            ELSE UserCall(agg.user_func, values)
      [] OTHER -> Raise("ValueError")

\* aggregate_1d without the NaN filter
Aggregate1dMutKeepNaN(agg, data, ignore_nan) == Reduce(agg, data)

\* aggregate_1d with the mean's division left out
Aggregate1dMutMeanAsSum(agg, data, ignore_nan) ==
    LET values == IF ignore_nan THEN DropNaN(data) ELSE data
    IN  IF agg.func = MEAN THEN NpSum(values) ELSE Reduce(agg, values)

\* Aggregator.aggregate_1d(data, ignore_nan)

Aggregate1d(agg, data, ignore_nan) ==
    LET values == IF ignore_nan THEN DropNaN(data) ELSE data
    IN  Reduce(agg, values)

\* results that are vectors
OkV(v) == [err |-> "none", val |-> v]
RaiseV(e) == [err |-> e, val |-> <<>>]

\* column j of a matrix given as a sequence of rows
Column(data, j) == [i \in 1..Len(data) |-> data[i][j]]

\* Aggregator.aggregate_2d(data, axis=0, ignore_nan) on a matrix of ncols
\* columns.  With ignore_nan the boolean-mask selection is a 1-D array, which
\* cannot be assigned to the double[:, :] view: ValueError.
Aggregate2d(agg, data, ncols, ignore_nan) ==
    IF ignore_nan THEN RaiseV("ValueError")
    ELSE LET col == [j \in 1..ncols |-> Reduce(agg, Column(data, j))]
         IN  IF \E j \in 1..ncols : col[j].err # "none"
             THEN RaiseV(col[CHOOSE j \in 1..ncols : col[j].err # "none"].err)
             ELSE OkV([j \in 1..ncols |-> col[j].val])

(***************************************************************************)
(* The model's collaborators: the timestepper's calendar and the bound     *)
(* entity (node, storage, parameter).  The recorders only call accessors   *)
(* on them; what the accessors return is the environment's choice.         *)
(***************************************************************************)
\* Timesteps of 7 days from 2000-12-20: 2000-12-20, 2000-12-27, 2001-01-03,
\* 2001-01-10, 2001-01-17, ... (the timestep indices of the model stay
\* within January 2001)
Calendar == [start_year |-> 2000, delta_days |-> 7]

\* Timestep.year, Timestep.days and datetime_index[t].month of timestep index t
YearOf(t) == IF t * Calendar.delta_days <= 11 THEN Calendar.start_year
             ELSE Calendar.start_year + 1
MonthOf(t) == IF t * Calendar.delta_days <= 11 THEN 12 ELSE 1
DaysOf(t) == Calendar.delta_days

\* The entity's per-scenario buffer at a timestep whose sample is x: scenario
\* s holds x + s - 1 (node._flow, storage._volume, parameter values)
EntityBuffer(x, ncomb) == [s \in 1..ncomb |-> F(x + s - 1)]

\* node.get_max_flow(scenario_index) and the storage's maximum volume: the
\* largest value the scenario's buffer can hold
MaxFlowOf(s) == F(MaxSample + s - 1)
\* storage._current_pc[i], get_level() and get_area() of a volume v
CurrentPc(v, s) == FDiv(v, MaxFlowOf(s))
LevelOf(v) == FAdd(v, F(10))
AreaOf(v) == FMul(v, F(10))
\* IndexParameter.get_index(): the parameter's value as an integer
IndexOf(v) == v[1]

(***************************************************************************)
(* Matrices: a sequence of rows.                                           *)
(***************************************************************************)
Fill(n, m, x) == [i \in 1..n |-> [j \in 1..m |-> x]]
Zeros(n, m) == Fill(n, m, F(0))
Const(n, x) == [i \in 1..n |-> x]
\* rows lo+1..hi (the slice [lo:hi, :])
Rows(data, lo, hi) == SubSeq(data, lo + 1, IF hi > Len(data) THEN Len(data) ELSE hi)
Transpose(data, ncols) == [j \in 1..ncols |-> Column(data, j)]

\* np.percentile(col, p) with linear interpolation, p an integer in 0..100
Percentile(col, p) ==
    IF col = <<>> \/ HasNaN(col) THEN NaN
    ELSE LET a == Sorted(col)
             k == p * (Len(col) - 1)
             lo == k \div 100
             rem == k % 100
         IN  IF rem = 0 THEN a[lo + 1]
             ELSE FAdd(a[lo + 1], FMul(Norm(rem, 100), FSub(a[lo + 2], a[lo + 1])))

\* np.percentile(data, percentiles, axis=0): [n_percentiles, ncols]
PercentileCurve(data, percentiles, ncols) ==
    [k \in 1..Len(percentiles) |->
        [j \in 1..ncols |-> Percentile(Column(data, j), percentiles[k])]]

(***************************************************************************)
(* Recorders.  A recorder is a record of its class (kind), its             *)
(* construction parameters and its buffers.  A memoryview that has not     *)
(* been assigned yet is the empty sequence.                                *)
(***************************************************************************)
\* the classes that allocate a [timesteps x scenarios] buffer of doubles, fill a
\* row per timestep and reduce it with _temporal_aggregator
NodeSeriesKinds ==
    {"NumpyArrayNodeRecorder", "FlowDurationCurveRecorder",
     "SeasonalFlowDurationCurveRecorder", "FlowDurationCurveDeviationRecorder"}
StorageSeriesKinds ==
    {"NumpyArrayStorageRecorder", "StorageDurationCurveRecorder",
     "NumpyArrayLevelRecorder", "NumpyArrayAreaRecorder"}
SeriesKinds == NodeSeriesKinds \cup StorageSeriesKinds \cup {"NumpyArrayParameterRecorder"}
FlowCurveKinds ==
    {"FlowDurationCurveRecorder", "SeasonalFlowDurationCurveRecorder",
     "FlowDurationCurveDeviationRecorder"}
CurveKinds == FlowCurveKinds \cup {"StorageDurationCurveRecorder"}
\* the subclasses of BaseConstantNodeRecorder, BaseConstantStorageRecorder and
\* BaseConstantParameterRecorder (one _values entry per scenario)
ConstantKinds ==
    {"TotalDeficitNodeRecorder", "TotalFlowNodeRecorder", "MeanFlowNodeRecorder",
     "DeficitFrequencyNodeRecorder", "BaseConstantStorageRecorder",
     "MinimumVolumeStorageRecorder", "MinimumThresholdVolumeStorageRecorder",
     "TotalParameterRecorder", "MeanParameterRecorder"}
\* recorder_registry: every class that calls register()
RegisteredKinds ==
    SeriesKinds \cup ConstantKinds \cup
    {"AggregatedRecorder", "NodeRecorder", "StorageRecorder", "ParameterRecorder",
     "IndexParameterRecorder", "NumpyArrayIndexParameterRecorder",
     "RollingWindowParameterRecorder", "RollingMeanFlowNodeRecorder",
     "AnnualCountIndexParameterRecorder"}

\* A recorder of class kind as Recorder.__init__ and the subclass constructors
\* leave it with default arguments
NewRecorder(kind) ==
    [kind |-> kind,
     ignore_nan |-> FALSE,
     scenario_aggregator |-> FuncSet(NewAggregator, PyStr("mean")).agg,
     temporal_aggregator |-> FuncSet(NewAggregator, PyStr("mean")).agg,
     recorders |-> <<>>,
     recorder_agg_func |-> MEAN,
     recorder_user_func |-> "None",
     proportional |-> FALSE,
     percentiles |-> <<>>,
     months |-> {},
     lower_target_fdc |-> <<>>,
     upper_target_fdc |-> <<>>,
     scenario |-> "None",
     window |-> 0,
     timesteps |-> 0,
     days |-> 0,
     factor |-> F(1),
     integrate |-> FALSE,
     threshold |-> 0,
     data |-> <<>>,
     fdc |-> <<>>,
     sdc |-> <<>>,
     fdc_deviations |-> <<>>,
     memory |-> <<>>,
     position |-> 0,
     values |-> <<>>,
     count |-> <<>>,
     current_max |-> <<>>,
     current_year |-> 0]

NoErr(r) == [rec |-> r, err |-> "none"]
Err(r, e) == [rec |-> r, err |-> e]

\* RollingMeanFlowNodeRecorder.__init__(model, node, timesteps, days) on the
\* recorder r that Recorder.__init__ has initialised
RollingMeanInit(r, timesteps, days) ==
    IF ~Truthy(timesteps) /\ ~Truthy(days) THEN Err(r, "ValueError")
    ELSE NoErr([r EXCEPT !.timesteps = IF Truthy(timesteps) THEN timesteps.v ELSE 0,
                         !.days = IF Truthy(days) THEN days.v ELSE 0,
                         !.data = <<>>])

(***************************************************************************)
(* setup()                                                                 *)
(***************************************************************************)
\* self.scenario.size: the model has one scenario, "A", whose ensemble
\* members are the scenario combinations
ScenarioSize(scenario, ncomb) == ncomb

\* FlowDurationCurveDeviationRecorder.setup: the target shape check
TargetShapeOk(r, ncomb) ==
    IF r.scenario # "None"
    THEN /\ Len(r.lower_target_fdc[1]) = ScenarioSize(r.scenario, ncomb)
         /\ Len(r.upper_target_fdc[1]) = ScenarioSize(r.scenario, ncomb)
    ELSE /\ (Len(r.lower_target_fdc[1]) > 1 => Len(r.lower_target_fdc[1]) = ncomb)
         /\ (Len(r.upper_target_fdc[1]) > 1 => Len(r.upper_target_fdc[1]) = ncomb)

\* a setup() that does not look at the resolved window
RollingMeanSetupMutNoCheck(r, nts, ncomb, garbage) ==
    LET r1 == [r EXCEPT !.position = 0, !.data = Fill(nts, ncomb, garbage)]
        r2 == IF r.days # 0
              THEN [r1 EXCEPT !.timesteps = r.days \div Calendar.delta_days]
              ELSE r1
    IN  NoErr([r2 EXCEPT !.memory = Zeros(ncomb, r2.timesteps)])

\* RollingMeanFlowNodeRecorder.setup; np.zeros refuses a negative dimension
RollingMeanSetup(r, nts, ncomb, garbage) ==
    LET r1 == [r EXCEPT !.position = 0, !.data = Fill(nts, ncomb, garbage)]
        r2 == IF r.days # 0
              THEN [r1 EXCEPT !.timesteps = r.days \div Calendar.delta_days]
              ELSE r1
    IN  IF r2.timesteps = 0 THEN Err(r2, "ValueError")
        ELSE IF r2.timesteps < 0 THEN Err(r2, "ValueError")
        ELSE NoErr([r2 EXCEPT !.memory = Zeros(ncomb, r2.timesteps)])

\* setup() of a recorder in a model of nts timesteps and ncomb scenario
\* combinations; garbage is what np.empty's memory holds
SetupRec(r, nts, ncomb, garbage) ==
    CASE r.kind \in SeriesKinds ->
            IF r.kind = "FlowDurationCurveDeviationRecorder"
               /\ ~TargetShapeOk(r, ncomb)
            THEN Err([r EXCEPT !.data = Zeros(nts, ncomb)], "ValueError")
            ELSE NoErr([r EXCEPT !.data = Zeros(nts, ncomb)])
      [] r.kind = "NumpyArrayIndexParameterRecorder" ->
            NoErr([r EXCEPT !.data = Fill(nts, ncomb, 0)])
      [] r.kind = "RollingWindowParameterRecorder" ->
            NoErr([r EXCEPT !.data = Zeros(nts, ncomb),
                            !.memory = Fill(nts, ncomb, garbage),
                            !.position = 0])
      [] r.kind = "RollingMeanFlowNodeRecorder" ->
            RollingMeanSetup(r, nts, ncomb, garbage)
      [] r.kind \in ConstantKinds ->
            NoErr([r EXCEPT !.values = Const(ncomb, F(0))])
      [] r.kind = "AnnualCountIndexParameterRecorder" ->
            NoErr([r EXCEPT !.count = Const(ncomb, 0), !.current_max = Const(ncomb, 0)])
      [] OTHER -> NoErr(r)

(***************************************************************************)
(* reset()                                                                 *)
(***************************************************************************)
\* a reset() that clears nothing
ResetRecMutKeep(r) == r

\* a reset() that also drops the curve finish() computed
ResetRecMutDropCurve(r) ==
    IF r.kind \in SeriesKinds
    THEN [r EXCEPT !.data = Zeros(Len(r.data), Len(r.data[1])),
                   !.fdc = <<>>, !.sdc = <<>>, !.fdc_deviations = <<>>]
    ELSE r

\* reset() of a recorder whose setup() has run.  A class that defines no
\* reset() inherits the Component's, which changes nothing.
ResetRec(r) ==
    CASE r.kind \in SeriesKinds ->
            [r EXCEPT !.data = Zeros(Len(r.data), Len(r.data[1]))]
      [] r.kind = "NumpyArrayIndexParameterRecorder" ->
            [r EXCEPT !.data = Fill(Len(r.data), Len(r.data[1]), 0)]
      [] r.kind = "RollingWindowParameterRecorder" ->
            [r EXCEPT !.data = Zeros(Len(r.data), Len(r.data[1])), !.position = 0]
      [] r.kind = "MinimumVolumeStorageRecorder" ->
            [r EXCEPT !.values = Const(Len(r.values), PInf)]
      [] r.kind \in ConstantKinds \ {"MinimumVolumeStorageRecorder"} ->
            [r EXCEPT !.values = Const(Len(r.values), F(0))]
      [] r.kind = "AnnualCountIndexParameterRecorder" ->
            [r EXCEPT !.count = Const(Len(r.count), 0),
                      !.current_max = Const(Len(r.current_max), 0),
                      !.current_year = -1]
      [] OTHER -> r

(***************************************************************************)
(* after(): t is model.timestepper.current.index, ent the bound entity's   *)
(* per-scenario buffer at this timestep.                                   *)
(***************************************************************************)
SetRow(data, t, row) == [data EXCEPT ![t + 1] = row]

FAbs(x) == IF x[1] < 0 THEN FNeg(x) ELSE x

\* the tolerance of DeficitFrequencyNodeRecorder.after
Epsilon == Norm(1, 1000000)

\* a row stored with the scenarios in reverse order
SeriesRowMutReversed(r, ent) == [i \in DOMAIN ent |-> ent[Len(ent) + 1 - i]]

\* the row a time-series recorder stores for the timestep
SeriesRow(r, ent) ==
    CASE r.kind = "NumpyArrayStorageRecorder" \/ r.kind = "StorageDurationCurveRecorder" ->
            IF r.proportional THEN [i \in DOMAIN ent |-> CurrentPc(ent[i], i)] ELSE ent
      [] r.kind = "NumpyArrayLevelRecorder" -> [i \in DOMAIN ent |-> LevelOf(ent[i])]
      [] r.kind = "NumpyArrayAreaRecorder" -> [i \in DOMAIN ent |-> AreaOf(ent[i])]
      [] OTHER -> ent

\* the cursor after a write: position += 1, wrapped at the window length
NextPosition(position, window) ==
    IF position + 1 >= window THEN 0 ELSE position + 1

\* the number of valid samples at timestep index t for a window length
WindowCount(t, window) == IF t < window THEN t + 1 ELSE window

\* RollingWindowParameterRecorder.after
RollingWindowAfter(r, t, ent) ==
    LET memory == SetRow(r.memory, r.position, ent)
        n == WindowCount(t, r.window)
        value == Aggregate2d(r.temporal_aggregator, Rows(memory, 0, n), Len(ent), FALSE)
    IN  IF value.err # "none" THEN Err([r EXCEPT !.memory = memory], value.err)
        ELSE NoErr([r EXCEPT !.memory = memory,
                             !.data = SetRow(r.data, t, value.val),
                             !.position = NextPosition(r.position, r.window)])

\* RollingMeanFlowNodeRecorder.after; _memory is [scenarios x timesteps]
RollingMeanAfter(r, t, ent) ==
    LET memory == [i \in DOMAIN r.memory |->
                      [r.memory[i] EXCEPT ![r.position + 1] = ent[i]]]
        n == WindowCount(t, r.timesteps)
        mean_flow == [i \in DOMAIN memory |-> NpMean(SubSeq(memory[i], 1, n)).val]
    IN  NoErr([r EXCEPT !.memory = memory,
                        !.data = SetRow(r.data, t, mean_flow),
                        !.position = NextPosition(r.position, r.timesteps)])

\* AnnualCountIndexParameterRecorder: the count with the year's maximum judged
CountYear(r) ==
    [i \in DOMAIN r.count |->
        IF r.current_max[i] >= r.threshold THEN r.count[i] + 1 ELSE r.count[i]]

\* an after() that carries the maximum of one year over into the next
AnnualCountAfterMutCarry(r, t, ent) ==
    LET r1 == IF YearOf(t) # r.current_year
              THEN [r EXCEPT !.count = IF r.current_year # -1 THEN CountYear(r)
                                       ELSE r.count,
                             !.current_year = YearOf(t)]
              ELSE r
    IN  NoErr([r1 EXCEPT !.current_max =
                  [i \in DOMAIN r1.current_max |->
                      IF IndexOf(ent[i]) > r1.current_max[i] THEN IndexOf(ent[i])
                      ELSE r1.current_max[i]]])

\* AnnualCountIndexParameterRecorder.after
AnnualCountAfter(r, t, ent) ==
    LET r1 == IF YearOf(t) # r.current_year
              THEN [r EXCEPT !.count = IF r.current_year # -1 THEN CountYear(r)
                                       ELSE r.count,
                             !.current_max = Const(Len(r.current_max), 0),
                             !.current_year = YearOf(t)]
              ELSE r
    IN  NoErr([r1 EXCEPT !.current_max =
                  [i \in DOMAIN r1.current_max |->
                      IF IndexOf(ent[i]) > r1.current_max[i] THEN IndexOf(ent[i])
                      ELSE r1.current_max[i]]])

\* an after() that keeps the volume of the timestep
ConstantAfterValuesMutLast(r, t, ent) == ent

\* an after() that judges the volume of the timestep alone
ConstantAfterValuesMutLatch(r, t, ent) ==
    [i \in DOMAIN r.values |-> IF FLeq(ent[i], F(r.threshold)) THEN F(1) ELSE F(0)]

\* an after() that never multiplies by the length of the timestep
ConstantAfterValuesMutNoIntegrate(r, t, ent) ==
    [i \in DOMAIN r.values |-> FAdd(r.values[i], FMul(ent[i], r.factor))]

\* an after() that adds the scaled flow, whatever the length of the timestep
ConstantAfterValuesMutNoDays(r, t, ent) ==
    [i \in DOMAIN r.values |-> FAdd(r.values[i], FMul(ent[i], r.factor))]

\* an after() that adds the surplus of the flow over max_flow
ConstantAfterValuesMutSurplus(r, t, ent) ==
    [i \in DOMAIN r.values |->
        FAdd(r.values[i], FMul(FSub(ent[i], MaxFlowOf(i)), F(DaysOf(t))))]

\* after() of the constant-value recorders: the new _values
ConstantAfterValues(r, t, ent) ==
    CASE r.kind = "TotalDeficitNodeRecorder" ->
            [i \in DOMAIN r.values |->
                FAdd(r.values[i], FMul(FSub(MaxFlowOf(i), ent[i]), F(DaysOf(t))))]
      [] r.kind = "TotalFlowNodeRecorder" ->
            [i \in DOMAIN r.values |->
                FAdd(r.values[i], FMul(FMul(ent[i], r.factor), F(DaysOf(t))))]
      [] r.kind = "MeanFlowNodeRecorder" \/ r.kind = "MeanParameterRecorder" ->
            [i \in DOMAIN r.values |-> FAdd(r.values[i], FMul(ent[i], r.factor))]
      [] r.kind = "DeficitFrequencyNodeRecorder" ->
            [i \in DOMAIN r.values |->
                IF FLess(Epsilon, FAbs(FSub(ent[i], MaxFlowOf(i))))
                THEN FAdd(r.values[i], F(1)) ELSE r.values[i]]
      [] r.kind = "MinimumVolumeStorageRecorder" ->
            [i \in DOMAIN r.values |-> FMin2(ent[i], r.values[i])]
      [] r.kind = "MinimumThresholdVolumeStorageRecorder" ->
            [i \in DOMAIN r.values |->
                IF FLeq(ent[i], F(r.threshold)) THEN F(1) ELSE r.values[i]]
      [] r.kind = "TotalParameterRecorder" ->
            LET factor == IF r.integrate THEN FMul(r.factor, F(DaysOf(t))) ELSE r.factor
            IN  [i \in DOMAIN r.values |-> FAdd(r.values[i], FMul(ent[i], factor))]
      [] OTHER -> r.values

\* after() of a recorder
AfterRec(r, t, ent) ==
    CASE r.kind \in SeriesKinds ->
            NoErr([r EXCEPT !.data = SetRow(r.data, t, SeriesRow(r, ent))])
      [] r.kind = "NumpyArrayIndexParameterRecorder" ->
            NoErr([r EXCEPT !.data = SetRow(r.data, t, [i \in DOMAIN ent |-> IndexOf(ent[i])])])
      [] r.kind = "RollingWindowParameterRecorder" -> RollingWindowAfter(r, t, ent)
      [] r.kind = "RollingMeanFlowNodeRecorder" -> RollingMeanAfter(r, t, ent)
      [] r.kind = "BaseConstantStorageRecorder" -> Err(r, "NotImplementedError")
      [] r.kind \in ConstantKinds \ {"BaseConstantStorageRecorder"} ->
            NoErr([r EXCEPT !.values = ConstantAfterValues(r, t, ent)])
      [] r.kind = "AnnualCountIndexParameterRecorder" -> AnnualCountAfter(r, t, ent)
      [] OTHER -> NoErr(r)

(***************************************************************************)
(* finish(): t is model.timestepper.current.index, the last timestep's.    *)
(***************************************************************************)
\* a season that takes every row
SeasonRowsMutAll(data, months, t) == data

\* the rows of the buffer whose timestep's month is in months
RECURSIVE SeasonRows(_, _, _)
SeasonRows(data, months, t) ==
    IF t >= Len(data) THEN <<>>
    ELSE (IF MonthOf(t) \in months THEN <<data[t + 1]>> ELSE <<>>)
         \o SeasonRows(data, months, t + 1)

\* max(udev, ldev, 0.0) as Python evaluates it: the first of the largest
PyMax3(a, b, c) ==
    LET m == IF FLess(a, b) THEN b ELSE a
    IN  IF FLess(m, c) THEN c ELSE m

\* a deviation that leaves the lower target out
DeviationMutUpperOnly(actual, ltrgt, utrgt) ==
    IF utrgt = F(0) \/ ltrgt = F(0) THEN NaN
    ELSE PyMax3(FDiv(FSub(actual, utrgt), utrgt), F(0), F(0))

\* a deviation that takes a zero target for no deviation
DeviationMutZeroTarget(actual, ltrgt, utrgt) ==
    IF utrgt = F(0) \/ ltrgt = F(0) THEN F(0)
    ELSE PyMax3(FDiv(FSub(actual, utrgt), utrgt), FDiv(FSub(ltrgt, actual), ltrgt), F(0))

\* one cell of FlowDurationCurveDeviationRecorder._fdc_deviations; a division
\* by a zero target raises ZeroDivisionError, which stores NaN
Deviation(actual, ltrgt, utrgt) ==
    IF utrgt = F(0) \/ ltrgt = F(0) THEN NaN
    ELSE PyMax3(FDiv(FSub(actual, utrgt), utrgt), FDiv(FSub(ltrgt, actual), ltrgt), F(0))

\* the column of a target a scenario combination uses: with the model's one
\* scenario, the combination's index in the scenario is its global id
TargetColumn(target, i) == IF Len(target[1]) = 1 THEN 1 ELSE i

FdcDeviations(r, fdc, ncomb) ==
    [k \in 1..Len(r.lower_target_fdc) |->
        [i \in 1..ncomb |->
            Deviation(fdc[k][i],
                      r.lower_target_fdc[k][TargetColumn(r.lower_target_fdc, i)],
                      r.upper_target_fdc[k][TargetColumn(r.upper_target_fdc, i)])]]

\* finish() of the recorders that divide _values by the timestep index nt
DivideByIndex(r, nt) ==
    IF nt = 0 THEN Err(r, "ZeroDivisionError")
    ELSE NoErr([r EXCEPT !.values = [i \in DOMAIN r.values |-> FDiv(r.values[i], F(nt))]])

\* finish() of a recorder
FinishRec(r, t, ncomb) ==
    CASE r.kind = "FlowDurationCurveRecorder" ->
            NoErr([r EXCEPT !.fdc = PercentileCurve(r.data, r.percentiles, ncomb)])
      [] r.kind = "SeasonalFlowDurationCurveRecorder" ->
            NoErr([r EXCEPT !.fdc = PercentileCurve(SeasonRows(r.data, r.months, 0),
                                                    r.percentiles, ncomb)])
      [] r.kind = "FlowDurationCurveDeviationRecorder" ->
            LET fdc == PercentileCurve(r.data, r.percentiles, ncomb)
            IN  NoErr([r EXCEPT !.fdc = fdc, !.fdc_deviations = FdcDeviations(r, fdc, ncomb)])
      [] r.kind = "StorageDurationCurveRecorder" ->
            NoErr([r EXCEPT !.sdc = PercentileCurve(r.data, r.percentiles, ncomb)])
      [] r.kind \in {"MeanFlowNodeRecorder", "DeficitFrequencyNodeRecorder",
                     "MeanParameterRecorder"} -> DivideByIndex(r, t)
      [] r.kind = "AnnualCountIndexParameterRecorder" ->
            NoErr([r EXCEPT !.count = CountYear(r)])
      [] OTHER -> NoErr(r)

(***************************************************************************)
(* values() and aggregated_value().  rs maps the model's recorder names to *)
(* recorders, ent is the bound entity's buffer (node._flow,                *)
(* storage._volume).                                                       *)
(***************************************************************************)
\* the temporal reduction of a buffer; reading a memoryview that was never
\* assigned raises AttributeError
TemporalValues(r, buffer, ncomb) ==
    IF buffer = <<>> THEN RaiseV("AttributeError")
    ELSE Aggregate2d(r.temporal_aggregator, buffer, ncomb, r.ignore_nan)

\* the running maximum / minimum AggregatedRecorder.values() keeps: replaced
\* only when the child's value compares greater / smaller
RECURSIVE RunningMax(_, _)
RunningMax(acc, xs) ==
    IF xs = <<>> THEN acc
    ELSE RunningMax(IF FLess(acc, Head(xs)) THEN Head(xs) ELSE acc, Tail(xs))

\* a running minimum that takes the last child's value
RunningMinMutLast(acc, xs) == IF xs = <<>> THEN acc ELSE xs[Len(xs)]

RECURSIVE RunningMin(_, _)
RunningMin(acc, xs) ==
    IF xs = <<>> THEN acc
    ELSE RunningMin(IF FLess(Head(xs), acc) THEN Head(xs) ELSE acc, Tail(xs))

\* an AggregatedRecorder.values() whose mean is not divided by the number of
\* children
CombineMutMeanAsSum(r, vs, n) ==
    LET across(i) == [c \in 1..Len(vs) |-> vs[c][i]]
    IN  CASE r.recorder_agg_func = PRODUCT -> OkV([i \in 1..n |-> ProdSeq(across(i))])
          [] r.recorder_agg_func \in {SUM, MEAN} -> OkV([i \in 1..n |-> SumSeq(across(i))])
          [] r.recorder_agg_func = MAX -> OkV([i \in 1..n |-> RunningMax(NInf, across(i))])
          [] r.recorder_agg_func = MIN -> OkV([i \in 1..n |-> RunningMin(PInf, across(i))])
          [] OTHER -> RaiseV("TypeError")

\* AggregatedRecorder.values(): the children's vectors vs combined per scenario
Combine(r, vs, n) ==
    LET across(i) == [c \in 1..Len(vs) |-> vs[c][i]]
    IN  CASE r.recorder_agg_func = PRODUCT -> OkV([i \in 1..n |-> ProdSeq(across(i))])
          [] r.recorder_agg_func = SUM -> OkV([i \in 1..n |-> SumSeq(across(i))])
          [] r.recorder_agg_func = MAX -> OkV([i \in 1..n |-> RunningMax(NInf, across(i))])
          [] r.recorder_agg_func = MIN -> OkV([i \in 1..n |-> RunningMin(PInf, across(i))])
          [] r.recorder_agg_func = MEAN ->
                OkV([i \in 1..n |-> FDiv(SumSeq(across(i)), F(Len(vs)))])
          [] OTHER ->
                IF r.recorder_user_func = "None" THEN RaiseV("TypeError")
                ELSE LET col == [i \in 1..n |-> UserCall(r.recorder_user_func, across(i))]
                     IN  IF \E i \in 1..n : col[i].err # "none"
                         THEN RaiseV(col[CHOOSE i \in 1..n : col[i].err # "none"].err)
                         ELSE OkV([i \in 1..n |-> col[i].val])

\* the first exception a sequence of results holds, "none" if none
RECURSIVE FirstErr(_)
FirstErr(vs) ==
    IF vs = <<>> THEN "none"
    ELSE IF Head(vs).err # "none" THEN Head(vs).err
    ELSE FirstErr(Tail(vs))

\* Recorder.values() of the recorder called name
RECURSIVE ValuesOf(_, _, _)
ValuesOf(rs, name, ent) ==
    LET r == rs[name]
        ncomb == Len(ent)
    IN  CASE r.kind = "AggregatedRecorder" ->
                IF r.recorders = <<>> THEN RaiseV("AssertionError")
                ELSE LET vs == [c \in 1..Len(r.recorders) |->
                                   ValuesOf(rs, r.recorders[c], ent)]
                     IN  IF FirstErr(vs) # "none" THEN RaiseV(FirstErr(vs))
                         ELSE Combine(r, [c \in 1..Len(vs) |-> vs[c].val], ncomb)
          [] r.kind \in {"NodeRecorder", "StorageRecorder", "RollingMeanFlowNodeRecorder"} ->
                OkV(ent)
          [] r.kind \in {"FlowDurationCurveRecorder", "SeasonalFlowDurationCurveRecorder"} ->
                TemporalValues(r, r.fdc, ncomb)
          [] r.kind = "FlowDurationCurveDeviationRecorder" ->
                TemporalValues(r, r.fdc_deviations, ncomb)
          [] r.kind = "StorageDurationCurveRecorder" -> TemporalValues(r, r.sdc, ncomb)
          [] r.kind \in SeriesKinds \ CurveKinds -> TemporalValues(r, r.data, ncomb)
          [] r.kind \in ConstantKinds ->
                IF r.values = <<>> THEN RaiseV("AttributeError") ELSE OkV(r.values)
          [] r.kind = "AnnualCountIndexParameterRecorder" ->
                IF r.count = <<>> THEN RaiseV("AttributeError")
                ELSE OkV([i \in DOMAIN r.count |-> F(r.count[i])])
          [] OTHER -> RaiseV("NotImplementedError")

\* Recorder.aggregated_value()
AggregatedValue(rs, name, ent) ==
    LET values == ValuesOf(rs, name, ent)
    IN  IF values.err # "none" THEN Raise(values.err)
        ELSE Aggregate1d(rs[name].scenario_aggregator, values.val, FALSE)

(***************************************************************************)
(* The state.                                                              *)
(***************************************************************************)
VARIABLES
    model,      \* [nts, series]: len(model.timestepper) and the sample the
                \* bound entity takes at each timestep
    phase,      \* where the engine is: created, setup, running, finished,
                \* queried, reconfigured, requeried, failed; new before the
                \* recorder's constructor has run, peeked once the recorders
                \* were read before the first run
    run,        \* the number of runs started
    ts,         \* model.timestepper.current.index, -1 before the first timestep
    entity,     \* the bound entity's per-scenario buffer
    recs,       \* the model's recorders, by name
    raised,     \* the exception the last call raised, "none" if it returned
    observed,   \* what values() and aggregated_value() returned after each
                \* run's finish() and, last, after agg_func was assigned
    out         \* the last assignment of agg_func or call of the Aggregator:
                \* the value assigned, the vector reduced and what was returned

vars == <<model, phase, run, ts, entity, recs, raised, observed, out>>

\* len(self.model.scenarios.combinations)
NComb == Len(entity)

NoResult == [values |-> RaiseV("not called"), aggregated |-> Raise("not called"),
             data |-> <<>>]
NoCall == [op |-> "none", arg |-> PyOther("none"), ignore_nan |-> FALSE,
           data |-> <<>>, agg |-> NewAggregator, res |-> Raise("not called")]

(***************************************************************************)
(* The recorders a model is built with.                                    *)
(***************************************************************************)
\* the temporal aggregation functions the recorders are constructed with
TemporalTokens == {"mean", "max"}

WithTemporal(r) ==
    {[r EXCEPT !.temporal_aggregator = FuncSet(NewAggregator, PyStr(tok)).agg,
               !.ignore_nan = nan] : tok \in TemporalTokens, nan \in BOOLEAN}

\* percentiles=[0, 50, 100]
CurvePercentiles == <<0, 50, 100>>

\* a target curve of one column holding x at every percentile
TargetCurve(x) == [k \in 1..Len(CurvePercentiles) |-> <<F(x)>>]

\* a target of width columns holding rest everywhere but first at the first
\* percentile of the first column
TargetOf(first, rest, width) ==
    [k \in 1..Len(CurvePercentiles) |->
        [j \in 1..width |-> IF k = 1 /\ j = 1 THEN F(first) ELSE F(rest)]]

\* the value the targets hold
TargetLevel == 2

\* the lower and upper targets of the FlowDurationCurveDeviationRecorders: one
\* of them a single curve at TargetLevel, the other of any width and with or
\* without a zero; or both with a column per scenario combination
TargetPairs ==
    LET varied == {TargetOf(f, TargetLevel, w)
                   : f \in {0, TargetLevel},
                     w \in {1, NumScenarios, NumScenarios + 1}}
        full == {TargetOf(f, TargetLevel, NumScenarios) : f \in {0, TargetLevel}}
    IN  {<<l, TargetCurve(TargetLevel)>> : l \in varied}
        \cup {<<TargetCurve(TargetLevel), u>> : u \in varied}
        \cup {<<l, TargetOf(TargetLevel, TargetLevel, NumScenarios)>> : l \in full}
        \cup {<<TargetOf(TargetLevel, TargetLevel, NumScenarios), u>> : u \in full}

\* the recorders of class kind that the models are built with
Configs(kind) ==
    LET r == NewRecorder(kind)
    IN  CASE kind \in {"NumpyArrayNodeRecorder", "NumpyArrayLevelRecorder",
                       "NumpyArrayAreaRecorder", "NumpyArrayParameterRecorder"} ->
                WithTemporal(r)
          [] kind = "NumpyArrayStorageRecorder" ->
                UNION {WithTemporal([r EXCEPT !.proportional = p]) : p \in BOOLEAN}
          [] kind \in {"FlowDurationCurveRecorder", "StorageDurationCurveRecorder"} ->
                WithTemporal([r EXCEPT !.percentiles = CurvePercentiles])
          [] kind = "SeasonalFlowDurationCurveRecorder" ->
                UNION {WithTemporal([r EXCEPT !.percentiles = CurvePercentiles,
                                              !.months = m]) : m \in {{12}, {1, 12}}}
          [] kind = "FlowDurationCurveDeviationRecorder" ->
                {[r EXCEPT !.percentiles = CurvePercentiles,
                           !.lower_target_fdc = p[1],
                           !.upper_target_fdc = p[2],
                           !.scenario = sc,
                           !.ignore_nan = nan]
                 : p \in TargetPairs, sc \in {"None", "A"}, nan \in BOOLEAN}
          [] kind = "RollingWindowParameterRecorder" ->
                {[r EXCEPT !.window = w,
                           !.temporal_aggregator = FuncSet(NewAggregator, PyStr(tok)).agg]
                 : w \in 1..MaxTimesteps, tok \in TemporalTokens}
          [] kind = "RollingMeanFlowNodeRecorder" ->
                {[r EXCEPT !.timesteps = w] : w \in 1..MaxTimesteps}
                \cup {[r EXCEPT !.days = d]
                      : d \in {2 * Calendar.delta_days, Calendar.delta_days - 1}}
          [] kind \in {"TotalFlowNodeRecorder", "MeanFlowNodeRecorder",
                       "MeanParameterRecorder"} ->
                {[r EXCEPT !.factor = F(f)] : f \in {1, 2}}
          [] kind = "TotalParameterRecorder" ->
                {[r EXCEPT !.factor = F(f), !.integrate = b] : f \in {1, 2}, b \in BOOLEAN}
          [] kind \in {"MinimumThresholdVolumeStorageRecorder",
                       "AnnualCountIndexParameterRecorder"} ->
                {[r EXCEPT !.threshold = th] : th \in 0..(MaxSample + 1)}
          [] OTHER -> {r}

\* the functions an AggregatedRecorder of the models combines its children with
TreeTokens == {"sum", "max", "min", "mean", "product", "median"}

\* A model with one recorder, r, or with an AggregatedRecorder, agg, over two
\* children a and b
Populations ==
    {[r |-> c] : c \in UNION {Configs(k) : k \in RegisteredKinds \ {"AggregatedRecorder"}}}
    \cup
    {[a |-> [NewRecorder("TotalFlowNodeRecorder") EXCEPT !.factor = F(2)],
      b |-> NewRecorder("MinimumVolumeStorageRecorder"),
      agg |-> [NewRecorder("AggregatedRecorder") EXCEPT
                  !.recorders = <<"a", "b">>,
                  !.recorder_agg_func = AggFuncLookup[tok]]]
     : tok \in TreeTokens}

\* the models: a timestepper of nts timesteps and the entity's samples
Models ==
    UNION {[nts : {n}, series : [1..n -> 1..MaxSample]] : n \in 1..MaxTimesteps}

\* the contents np.empty may hand out
Garbage == {F(0), F(-1)}

Init ==
    /\ model \in Models
    /\ recs \in Populations
    /\ phase = "created"
    /\ run = 0
    /\ ts = -1
    /\ entity = Const(NumScenarios, F(0))
    /\ raised = "none"
    /\ observed = [k \in 1..(MaxRuns + 1) |-> [n \in DOMAIN recs |-> NoResult]]
    /\ out = NoCall

(***************************************************************************)
(* The engine's calls.  Each is made on every recorder of the model; a     *)
(* call that raises ends the run.                                          *)
(***************************************************************************)
\* the exception a set of per-recorder outcomes holds, "none" if none
ErrOf(res) ==
    IF \E n \in DOMAIN res : res[n].err # "none"
    THEN res[CHOOSE n \in DOMAIN res : res[n].err # "none"].err
    ELSE "none"

\* model.setup()
Setup ==
    /\ phase = "created"
    /\ \E g \in Garbage :
          LET res == [n \in DOMAIN recs |-> SetupRec(recs[n], model.nts, NComb, g)]
          IN  /\ recs' = [n \in DOMAIN recs |-> res[n].rec]
              /\ raised' = ErrOf(res)
              /\ phase' = IF ErrOf(res) = "none" THEN "setup" ELSE "failed"
    /\ UNCHANGED <<model, run, ts, entity, observed, out>>

\* model.reset(), before each run
Reset ==
    /\ phase \in {"setup", "queried"}
    /\ run < MaxRuns
    /\ recs' = [n \in DOMAIN recs |-> ResetRec(recs[n])]
    /\ run' = run + 1
    /\ ts' = -1
    /\ phase' = "running"
    /\ raised' = "none"
    /\ UNCHANGED <<model, entity, observed, out>>

\* one timestep: the engine advances the timestepper, the entity takes the
\* timestep's state, and after() is called
After ==
    /\ phase = "running"
    /\ ts + 1 < model.nts
    /\ LET t == ts + 1
           ent == EntityBuffer(model.series[t + 1], NComb)
           res == [n \in DOMAIN recs |-> AfterRec(recs[n], t, ent)]
       IN  /\ ts' = t
           /\ entity' = ent
           /\ recs' = [n \in DOMAIN recs |-> res[n].rec]
           /\ raised' = ErrOf(res)
           /\ phase' = IF ErrOf(res) = "none" THEN "running" ELSE "failed"
    /\ UNCHANGED <<model, run, observed, out>>

\* model.finish(), after the last timestep
Finish ==
    /\ phase = "running"
    /\ ts = model.nts - 1
    /\ LET res == [n \in DOMAIN recs |-> FinishRec(recs[n], ts, NComb)]
       IN  /\ recs' = [n \in DOMAIN recs |-> res[n].rec]
           /\ raised' = ErrOf(res)
           /\ phase' = IF ErrOf(res) = "none" THEN "finished" ELSE "failed"
    /\ UNCHANGED <<model, run, ts, entity, observed, out>>

\* an AggregatedRecorder.values() that accumulates in the memoryview its first
\* child returned
ChildBuffersMutInPlace(r, vs, n) ==
    [c \in 1..Len(vs) |-> IF c = 1 /\ Combine(r, vs, n).err = "none"
                          THEN Combine(r, vs, n).val ELSE vs[c]]

\* the children's vectors once AggregatedRecorder.values() has combined them:
\* value is a new array and value2, which may be a child's own _values, is
\* only read
ChildBuffers(r, vs, n) == vs

\* the recorders once values() and aggregated_value() of every recorder have
\* returned: BaseConstant*Recorder.values() hands out the recorder's _values
\* itself, so what an AggregatedRecorder does to its children's vectors is
\* done to those recorders
ReadEffect(rs, ent) ==
    [c \in DOMAIN rs |->
        LET parents == {q \in DOMAIN rs :
                            /\ rs[q].kind = "AggregatedRecorder"
                            /\ \E k \in DOMAIN rs[q].recorders : rs[q].recorders[k] = c
                            /\ ValuesOf(rs, q, ent).err = "none"}
        IN  IF rs[c].kind \in ConstantKinds /\ parents # {}
            THEN LET q == CHOOSE x \in parents : TRUE
                     k == CHOOSE j \in DOMAIN rs[q].recorders : rs[q].recorders[j] = c
                     vs == [j \in DOMAIN rs[q].recorders |->
                               ValuesOf(rs, rs[q].recorders[j], ent).val]
                 IN  [rs[c] EXCEPT !.values = ChildBuffers(rs[q], vs, Len(ent))[k]]
            ELSE rs[c]]

\* what a consumer reads: values(), aggregated_value() and the data property
\* of every recorder
Reading ==
    [n \in DOMAIN recs |->
        [values |-> ValuesOf(recs, n, entity),
         aggregated |-> AggregatedValue(recs, n, entity),
         data |-> recs[n].data]]

\* a consumer reads the recorders after a run's finish()
Query ==
    /\ phase = "finished"
    /\ observed' = [observed EXCEPT ![run] = Reading]
    /\ recs' = ReadEffect(recs, entity)
    /\ phase' = "queried"
    /\ UNCHANGED <<model, run, ts, entity, raised, out>>

\* a consumer reads the recorders before the first reset(), or before
\* setup(), and the model is taken no further
Peek ==
    /\ phase \in {"created", "setup"}
    /\ observed' = [observed EXCEPT ![1] = Reading]
    /\ recs' = ReadEffect(recs, entity)
    /\ phase' = "peeked"
    /\ UNCHANGED <<model, run, ts, entity, raised, out>>

\* the values a func / agg_func / temporal_agg_func setter is handed
PyFuncValues ==
    {PyStr(tok) : tok \in DOMAIN AggFuncLookup \cup {"SUM", "Mean", "average"}}
    \cup {PyCallable("np.ptp"), PyOther("None")}

\* an agg_func setter that configures the temporal Aggregator
AggFuncSetMutTemporal(r, func) ==
    LET res == FuncSet(r.temporal_aggregator, func)
    IN  [rec |-> [r EXCEPT !.temporal_aggregator = res.agg], err |-> res.err]

\* recorder.agg_func = func

AggFuncSet(r, func) ==
    LET res == FuncSet(r.scenario_aggregator, func)
    IN  [rec |-> [r EXCEPT !.scenario_aggregator = res.agg], err |-> res.err]

\* the classes that define the temporal_agg_func property
TemporalKinds ==
    SeriesKinds \cup {"NumpyArrayIndexParameterRecorder", "RollingWindowParameterRecorder"}

\* recorder.temporal_agg_func = func; a class without the property has no
\* such attribute to assign
TemporalAggFuncSet(r, func) ==
    IF r.kind \notin TemporalKinds THEN Err(r, "AttributeError")
    ELSE LET res == FuncSet(r.temporal_aggregator, func)
         IN  [rec |-> [r EXCEPT !.temporal_aggregator = res.agg], err |-> res.err]

\* once the runs are done, a consumer assigns agg_func of a recorder ...
SetAggFunc ==
    /\ phase = "queried"
    /\ run = MaxRuns
    /\ \E n \in DOMAIN recs, func \in PyFuncValues :
          LET res == AggFuncSet(recs[n], func)
          IN  /\ recs' = [recs EXCEPT ![n] = res.rec]
              /\ raised' = res.err
              /\ out' = [NoCall EXCEPT !.op = "agg_func", !.arg = func]
    /\ phase' = "reconfigured"
    /\ UNCHANGED <<model, run, ts, entity, observed>>

\* ... or its temporal_agg_func ...
SetTemporalAggFunc ==
    /\ phase = "queried"
    /\ run = MaxRuns
    /\ \E n \in DOMAIN recs, func \in PyFuncValues :
          LET res == TemporalAggFuncSet(recs[n], func)
          IN  /\ recs' = [recs EXCEPT ![n] = res.rec]
              /\ raised' = res.err
              /\ out' = [NoCall EXCEPT !.op = "temporal_agg_func", !.arg = func]
    /\ phase' = "reconfigured"
    /\ UNCHANGED <<model, run, ts, entity, observed>>

\* ... and reads the recorders again
Requery ==
    /\ phase = "reconfigured"
    /\ observed' = [observed EXCEPT ![MaxRuns + 1] = Reading]
    /\ recs' = ReadEffect(recs, entity)
    /\ phase' = "requeried"
    /\ UNCHANGED <<model, run, ts, entity, raised, out>>

Next ==
    \/ Setup \/ Reset \/ After \/ Finish \/ Query \/ SetAggFunc \/ SetTemporalAggFunc
    \/ Requery \/ Peek

Spec == Init /\ [][Next]_vars

(***************************************************************************)
(* A model whose recorder is a RollingMeanFlowNodeRecorder constructed     *)
(* with any timesteps and days.                                            *)
(***************************************************************************)
\* the timesteps and days arguments of the constructor
TimestepArgs == {PyNone} \cup {PyInt(n) : n \in -1..MaxTimesteps}
DayArgs == {PyNone, PyInt(0), PyInt(Calendar.delta_days - 1), PyInt(2 * Calendar.delta_days)}

InitNew ==
    /\ model \in Models
    /\ recs = [r |-> NewRecorder("RollingMeanFlowNodeRecorder")]
    /\ phase = "new"
    /\ run = 0
    /\ ts = -1
    /\ entity = Const(NumScenarios, F(0))
    /\ raised = "none"
    /\ observed = [k \in 1..(MaxRuns + 1) |-> [n \in DOMAIN recs |-> NoResult]]
    /\ out = NoCall

\* RollingMeanFlowNodeRecorder(model, node, timesteps=..., days=...)
Construct ==
    /\ phase = "new"
    /\ \E timesteps \in TimestepArgs, days \in DayArgs :
          LET res == RollingMeanInit(recs.r, timesteps, days)
          IN  /\ recs' = [recs EXCEPT !.r = res.rec]
              /\ raised' = res.err
              /\ phase' = IF res.err = "none" THEN "created" ELSE "failed"
              /\ out' = [NoCall EXCEPT !.op = "__init__",
                                       !.arg = [timesteps |-> timesteps, days |-> days]]
    /\ UNCHANGED <<model, run, ts, entity, observed>>

NextNew == Construct \/ Next

SpecNew == InitNew /\ [][NextNew]_vars

(***************************************************************************)
(* Trees of AggregatedRecorders (SpecTree).                                *)
(***************************************************************************)
\* a keyword argument that was not passed
PyAbsent == [type |-> "absent", v |-> "None"]

\* AggregatedRecorder(model, recorders, **kwargs): the recorder-combining
\* function is recorder_agg_func, or agg_func when that is not passed, or
\* None when neither is; Recorder.__init__ then takes agg_func, "mean" when
\* it is not passed
AggregatedInit(r, kwargs) ==
    LET agg_func == IF kwargs.recorder_agg_func.type # "absent"
                    THEN kwargs.recorder_agg_func
                    ELSE IF kwargs.agg_func.type # "absent" THEN kwargs.agg_func
                    ELSE PyOther("None")
        scenario == FuncSet(NewAggregator,
                            IF kwargs.agg_func.type # "absent" THEN kwargs.agg_func
                            ELSE PyStr("mean"))
        r1 == IF agg_func.type = "str"
              THEN IF Lower(agg_func.v) \in DOMAIN AggFuncLookup
                   THEN NoErr([r EXCEPT !.recorder_agg_func = AggFuncLookup[Lower(agg_func.v)]])
                   ELSE Err(r, "KeyError")
              ELSE IF agg_func.type = "callable"
              THEN NoErr([r EXCEPT !.recorder_user_func = agg_func.v,
                                   !.recorder_agg_func = CUSTOM])
              ELSE Err(r, "ValueError")
    IN  IF r1.err # "none" THEN r1
        ELSE IF scenario.err # "none" THEN Err(r, scenario.err)
        ELSE NoErr([r1.rec EXCEPT !.scenario_aggregator = scenario.agg])

\* the keyword arguments the AggregatedRecorders of a tree are constructed with
AggKwargs ==
    [agg_func : {PyAbsent, PyStr("sum")},
     recorder_agg_func : {PyAbsent, PyCallable("np.ptp"), PyOther("None")}
                         \cup {PyStr(tok) : tok \in TreeTokens}]

\* the threshold of the tree's AnnualCountIndexParameterRecorder
TreeThreshold == 2

\* a tree: root combines inner and the leaf a, inner combines the leaves a
\* and b, so a is reached on two paths
TreeRecorders ==
    [a |-> NewRecorder("MinimumVolumeStorageRecorder"),
     b |-> [NewRecorder("AnnualCountIndexParameterRecorder") EXCEPT
               !.threshold = TreeThreshold],
     inner |-> [NewRecorder("AggregatedRecorder") EXCEPT !.recorders = <<"a", "b">>],
     root |-> [NewRecorder("AggregatedRecorder") EXCEPT !.recorders = <<"inner", "a">>]]

InitTree ==
    /\ model \in Models
    /\ recs = TreeRecorders
    /\ phase = "new"
    /\ run = 0
    /\ ts = -1
    /\ entity = Const(NumScenarios, F(0))
    /\ raised = "none"
    /\ observed = [k \in 1..(MaxRuns + 1) |-> [n \in DOMAIN recs |-> NoResult]]
    /\ out = NoCall

\* inner = AggregatedRecorder(model, [a, b], **kwargs) and
\* root = AggregatedRecorder(model, [inner, a], **kwargs)
ConstructTree ==
    /\ phase = "new"
    /\ \E kwargs \in AggKwargs :
          LET inner == AggregatedInit(recs.inner, kwargs)
              root == AggregatedInit(recs.root, kwargs)
          IN  /\ recs' = [recs EXCEPT !.inner = inner.rec, !.root = root.rec]
              /\ raised' = IF inner.err # "none" THEN inner.err ELSE root.err
              /\ phase' = IF inner.err = "none" /\ root.err = "none"
                          THEN "created" ELSE "failed"
              /\ out' = [NoCall EXCEPT !.op = "__init__", !.arg = kwargs]
    /\ UNCHANGED <<model, run, ts, entity, observed>>

NextTree == ConstructTree \/ Next

SpecTree == InitTree /\ [][NextTree]_vars

(***************************************************************************)
(* The Aggregator on its own: a NodeRecorder r on a node whose flow buffer *)
(* is any vector, NaN entries included.  Its values() is the buffer, its   *)
(* _scenario_aggregator is reconfigured through agg_func and called        *)
(* directly and through aggregated_value().                                *)
(***************************************************************************)
\* the entries of the vectors: 1..MaxSample+2 and NaN
VectorEntries == {F(x) : x \in 1..(MaxSample + 2)} \cup {NaN}

Vectors == UNION {[1..n -> VectorEntries] : n \in 1..MaxLen}

InitAgg ==
    /\ model = [nts |-> 1, series |-> <<1>>]
    /\ \E nan \in BOOLEAN : recs = [r |-> [NewRecorder("NodeRecorder") EXCEPT !.ignore_nan = nan]]
    /\ phase = "created"
    /\ run = 0
    /\ ts = -1
    /\ entity \in Vectors
    /\ raised = "none"
    /\ observed = [k \in 1..(MaxRuns + 1) |-> [n \in DOMAIN recs |-> NoResult]]
    /\ out = NoCall

\* r.agg_func = func
AssignAggFunc ==
    /\ \E func \in PyFuncValues :
          LET res == AggFuncSet(recs.r, func)
          IN  /\ recs' = [recs EXCEPT !.r = res.rec]
              /\ raised' = res.err
              /\ out' = [NoCall EXCEPT !.op = "agg_func", !.arg = func,
                                       !.agg = res.rec.scenario_aggregator]
    /\ UNCHANGED <<model, phase, run, ts, entity, observed>>

\* r._scenario_aggregator.aggregate_1d(flow, ignore_nan)
CallAggregate1d ==
    /\ \E nan \in BOOLEAN :
          out' = [op |-> "aggregate_1d", arg |-> NoCall.arg,
                  ignore_nan |-> nan, data |-> entity,
                  agg |-> recs.r.scenario_aggregator,
                  res |-> Aggregate1d(recs.r.scenario_aggregator, entity, nan)]
    /\ UNCHANGED <<model, phase, run, ts, entity, recs, raised, observed>>

\* r.aggregated_value()
CallAggregatedValue ==
    /\ out' = [op |-> "aggregated_value", arg |-> NoCall.arg,
               ignore_nan |-> recs.r.ignore_nan,
               data |-> ValuesOf(recs, "r", entity).val,
               agg |-> recs.r.scenario_aggregator,
               res |-> AggregatedValue(recs, "r", entity)]
    /\ UNCHANGED <<model, phase, run, ts, entity, recs, raised, observed>>

NextAgg == AssignAggFunc \/ CallAggregate1d \/ CallAggregatedValue

SpecAgg == InitAgg /\ [][NextAgg]_vars

(***************************************************************************)
(* Closed forms of the reductions, stated as relations between a vector    *)
(* and a value.                                                            *)
(***************************************************************************)
Range(s) == {s[i] : i \in DOMAIN s}

NonNaN(s) == SelectSeq(s, LAMBDA x : ~IsNaN(x))

RECURSIVE SumTo(_, _)
SumTo(s, n) == IF n = 0 THEN F(0) ELSE FAdd(SumTo(s, n - 1), s[n])

RECURSIVE ProdTo(_, _)
ProdTo(s, n) == IF n = 0 THEN F(1) ELSE FMul(ProdTo(s, n - 1), s[n])

IsMinOf(x, s) == x \in Range(s) /\ \A i \in DOMAIN s : FLeq(x, s[i])

IsMaxOf(x, s) == x \in Range(s) /\ \A i \in DOMAIN s : FLeq(s[i], x)

\* the k-th smallest entry: fewer than k entries are below it, at least k
\* are not above it
OrderStat(s, k) ==
    CHOOSE x \in Range(s) :
        /\ Cardinality({i \in DOMAIN s : FLess(s[i], x)}) < k
        /\ Cardinality({i \in DOMAIN s : FLeq(s[i], x)}) >= k

IsMedianOf(x, s) ==
    LET n == Len(s)
    IN  IF n % 2 = 1 THEN x = OrderStat(s, (n + 1) \div 2)
        ELSE FMul(x, F(2)) = FAdd(OrderStat(s, n \div 2), OrderStat(s, n \div 2 + 1))

\* x is the closed-form reduction func of the non-empty, NaN-free vector s
IsClosedForm(func, x, s) ==
    IF func = SUM THEN x = SumTo(s, Len(s))
    ELSE IF func = PRODUCT THEN x = ProdTo(s, Len(s))
    ELSE IF func = MIN THEN IsMinOf(x, s)
    ELSE IF func = MAX THEN IsMaxOf(x, s)
    ELSE IF func = MEAN THEN FMul(x, F(Len(s))) = SumTo(s, Len(s))
    ELSE IF func = MEDIAN THEN IsMedianOf(x, s)
    ELSE \E lo \in Range(s), hi \in Range(s) :
            IsMinOf(lo, s) /\ IsMaxOf(hi, s) /\ x = FSub(hi, lo)

\* res is what reducing the vector s with the Aggregator agg gives: on an
\* empty vector the sum is 0, the product 1, the mean and the median NaN and
\* the others raise; a NaN entry makes every reduction NaN
IsReductionOf(agg, res, s) ==
    IF agg.func = CUSTOM /\ agg.user_func = "None" THEN res.err = "TypeError"
    ELSE IF s = <<>>
    THEN IF agg.func = SUM THEN res = Ok(F(0))
         ELSE IF agg.func = PRODUCT THEN res = Ok(F(1))
         ELSE IF agg.func \in {MEAN, MEDIAN} THEN res = Ok(NaN)
         ELSE res.err = "ValueError"
    ELSE IF HasNaN(s) THEN res = Ok(NaN)
    ELSE res.err = "none" /\ IsClosedForm(agg.func, res.val, s)

\* the reorderings of a vector
Reorderings(s) ==
    {[i \in DOMAIN s |-> s[p[i]]] :
        p \in {q \in [DOMAIN s -> DOMAIN s] : \A i, j \in DOMAIN s : q[i] = q[j] => i = j}}

\* a run's reading has been taken
Read(k, n) == observed[k][n].values.err # "not called"

(***************************************************************************)
(* The Aggregator's reductions (SpecAgg).                                  *)
(***************************************************************************)
\* C5: aggregated_value() of a recorder built with ignore_nan=True reduces
\* the non-NaN entries of values() with the scenario aggregation function;
\* built with ignore_nan=False it reduces values() as it is.
C5_AggregatedValueDropsNaN ==
    out.op = "aggregated_value" =>
        IsReductionOf(out.agg, out.res,
                      IF out.ignore_nan THEN NonNaN(out.data) ELSE out.data)

\* C6: for each built-in reduction kind, aggregate_1d on a non-empty vector
\* without NaN returns the closed-form reduction of the vector, and returns
\* the same for every reordering of the vector.
C6_Aggregate1dClosedForm ==
    (/\ out.op = "aggregate_1d"
     /\ out.agg.func # CUSTOM
     /\ ~HasNaN(out.data)) =>
        /\ out.res.err = "none"
        /\ IsClosedForm(out.agg.func, out.res.val, out.data)
        /\ \A v \in Reorderings(out.data) :
              Aggregate1d(out.agg, v, out.ignore_nan) = out.res

\* sum [1,2,3] = 6, mean [2,4] = 3 and product [2,3,4] = 24 have been computed
C6_Witness ==
    /\ out.op = "aggregate_1d"
    /\ \/ out.agg.func = SUM /\ out.data = <<F(1), F(2), F(3)>> /\ out.res = Ok(F(6))
       \/ out.agg.func = MEAN /\ out.data = <<F(2), F(4)>> /\ out.res = Ok(F(3))
       \/ out.agg.func = PRODUCT /\ out.data = <<F(2), F(3), F(4)>> /\ out.res = Ok(F(24))
       \/ out.agg.func = MEDIAN /\ out.data = <<F(4), F(1), F(2)>> /\ out.res = Ok(F(2))

\* C7: aggregate_1d with ignore_nan=true returns the reduction of the
\* sub-vector of non-NaN entries, which for the product of an all-NaN vector
\* is 1; with ignore_nan=false a NaN entry makes the mean and the sum NaN.
C7_Aggregate1dIgnoreNaN ==
    out.op = "aggregate_1d" =>
        /\ out.ignore_nan => IsReductionOf(out.agg, out.res, NonNaN(out.data))
        /\ (out.ignore_nan /\ out.agg.func = PRODUCT /\ NonNaN(out.data) = <<>>) =>
              out.res = Ok(F(1))
        /\ (~out.ignore_nan /\ HasNaN(out.data) /\ out.agg.func \in {MEAN, SUM}) =>
              out.res = Ok(NaN)

\* the mean of [1, NaN, 3] with ignore_nan=true has been computed and is 2
C7_Witness ==
    /\ out.op = "aggregate_1d"
    /\ out.ignore_nan
    /\ out.agg.func = MEAN
    /\ out.data = <<F(1), NaN, F(3)>>
    /\ out.res = Ok(F(2))

\* the values a func setter does not recognise: a string that is no token of
\* the lookup table in any letter case, or a value neither string nor callable
Unrecognised(func) ==
    \/ func.type = "str" /\ Lower(func.v) \notin {"sum", "min", "max", "mean", "median", "product"}
    \/ func.type \notin {"str", "callable"}

\* C9: assigning an unrecognised value fails at the assignment, and after an
\* assignment that was accepted no reduction fails for want of a usable
\* function.
C9_RejectedAtAssignment ==
    /\ (out.op = "agg_func" /\ Unrecognised(out.arg)) => raised # "none"
    /\ (out.op \in {"aggregate_1d", "aggregated_value"} /\ raised = "none") =>
          out.res.err # "TypeError"

(***************************************************************************)
(* The recorders over runs of the model (Spec).                            *)
(***************************************************************************)
\* C1: after one setup(), every run of reset(), after() at each timestep and
\* finish() with the same entity values leaves the same values() as the
\* first run did.
C1_ReplayStable ==
    \A k \in 2..MaxRuns : \A n \in DOMAIN recs :
        Read(k, n) => observed[k][n].values = observed[1][n].values

\* a second run has been read: a total, which the first run left non-zero,
\* and an AggregatedRecorder over it
C1_Witness ==
    /\ phase = "queried"
    /\ run >= 2
    /\ \E n \in DOMAIN recs :
          /\ recs[n].kind = "AggregatedRecorder"
          /\ observed[run][n].values.err = "none"
    /\ \E n \in DOMAIN recs :
          /\ recs[n].kind = "TotalFlowNodeRecorder"
          /\ observed[run][n].values.err = "none"
          /\ observed[run][n].values.val[1] # F(0)

\* C2: two successive runs of a RollingMeanFlowNodeRecorder fed the same
\* flows leave the same rolling-mean series in the data buffer.
C2_RollingMeanReproducible ==
    \A k \in 2..MaxRuns : \A n \in DOMAIN recs :
        (recs[n].kind = "RollingMeanFlowNodeRecorder" /\ Read(k, n)) =>
            observed[k][n].data = observed[1][n].data

\* C3: after a complete run, values() of every registered recorder returns a
\* vector with one entry per scenario combination.
C3_ValuesIsVector ==
    \A k \in 1..MaxRuns : \A n \in DOMAIN recs :
        Read(k, n) =>
            /\ observed[k][n].values.err = "none"
            /\ Len(observed[k][n].values.val) = NComb

\* the readings that were taken with the recorders configured as they are
Current ==
    IF phase = "requeried" THEN {MaxRuns + 1}
    ELSE IF phase = "reconfigured" THEN {}
    ELSE 1..MaxRuns

C8_IgnoreNaNValuesIsVector ==
    \A k \in 1..MaxRuns : \A n \in DOMAIN recs :
        (/\ recs[n].kind \in SeriesKinds \ CurveKinds
         /\ recs[n].ignore_nan
         /\ Read(k, n)) =>
            observed[k][n].values =
                Aggregate2d(recs[n].temporal_aggregator, observed[k][n].data, NComb, FALSE)

\* the raw samples of scenario s that the window of length w ends with at
\* timestep index t: the last min(t + 1, w) of them
WindowSamples(t, w, s) ==
    LET n == IF t + 1 < w THEN t + 1 ELSE w
    IN  [k \in 1..n |-> EntityBuffer(model.series[t - n + k + 1], NComb)[s]]

\* C10: in every run, row t of a rolling-window recorder's data buffer
\* holds, per scenario, the aggregate of the last min(t + 1, W) samples.
C10_RollingWindowRows ==
    phase \in {"running", "finished", "queried"} =>
        \A n \in DOMAIN recs : \A t \in 0..ts : \A s \in 1..NComb :
            /\ recs[n].kind = "RollingWindowParameterRecorder" =>
                  IsReductionOf(recs[n].temporal_aggregator, Ok(recs[n].data[t + 1][s]),
                                WindowSamples(t, recs[n].window, s))
            /\ recs[n].kind = "RollingMeanFlowNodeRecorder" =>
                  IsClosedForm(MEAN, recs[n].data[t + 1][s],
                               WindowSamples(t, recs[n].timesteps, s))

(***************************************************************************)
(* The RollingMeanFlowNodeRecorder's window (SpecNew).                     *)
(***************************************************************************)
\* C11: constructing the recorder with neither timesteps nor days (absent or
\* zero) fails with ValueError; setup() fails with ValueError when the
\* resolved window is zero; after() never runs with a window of zero.
C11_ZeroWindowRejected ==
    /\ (/\ out.op = "__init__"
        /\ ~Truthy(out.arg.timesteps)
        /\ ~Truthy(out.arg.days)) => (phase = "failed" /\ raised = "ValueError")
    /\ (phase \notin {"new", "created", "peeked"} /\ recs.r.timesteps = 0) =>
          (phase = "failed" /\ raised = "ValueError")
    /\ (phase = "running" /\ ts >= 0) => recs.r.timesteps >= 1

\* the constructor accepted days smaller than the timestep and setup() has
\* refused the zero window they resolve to
C11_Witness ==
    /\ out.op = "__init__"
    /\ Truthy(out.arg.days)
    /\ recs.r.days < Calendar.delta_days
    /\ recs.r.data # <<>>
    /\ recs.r.timesteps = 0
    /\ phase = "failed"
    /\ raised = "ValueError"

(***************************************************************************)
(* The time-series recorders (Spec).                                       *)
(***************************************************************************)
\* the classes that keep a [timesteps x scenarios] buffer of the entity
BufferKinds == SeriesKinds \cup {"NumpyArrayIndexParameterRecorder"}

\* what the bound entity gave recorder r for scenario s at timestep index t
Pulled(r, t, s) ==
    LET x == F(model.series[t + 1] + s - 1)
    IN  CASE r.kind = "NumpyArrayIndexParameterRecorder" -> IndexOf(x)
          [] r.kind \in {"NumpyArrayStorageRecorder", "StorageDurationCurveRecorder"} ->
                IF r.proportional THEN CurrentPc(x, s) ELSE x
          [] r.kind = "NumpyArrayLevelRecorder" -> LevelOf(x)
          [] r.kind = "NumpyArrayAreaRecorder" -> AreaOf(x)
          [] OTHER -> x

\* the zero of a recorder's buffer
ZeroOf(r) == IF r.kind = "NumpyArrayIndexParameterRecorder" THEN 0 ELSE F(0)

\* the buffer of a recorder of a run that has passed timestep index ts
BufferFilled(r) ==
    /\ Len(r.data) = model.nts
    /\ \A t \in 0..(model.nts - 1) :
          /\ Len(r.data[t + 1]) = NComb
          /\ \A s \in 1..NComb :
                r.data[t + 1][s] = IF t <= ts THEN Pulled(r, t, s) ELSE ZeroOf(r)

\* C12: in a run, after the after() calls at timestep indices 0..ts, the
\* buffer of a time-series recorder has a row per timestep and a column per
\* scenario combination, row t <= ts holds what the entity had at timestep
\* t, the later rows are zero; and an after() changes no row but the
\* current timestep's.
C12_BufferRows ==
    /\ [](phase = "running" =>
            \A n \in DOMAIN recs : recs[n].kind \in BufferKinds => BufferFilled(recs[n]))
    /\ [][After =>
            \A n \in DOMAIN recs : recs[n].kind \in BufferKinds =>
                \A t \in 1..Len(recs[n].data) :
                    t # ts' + 1 => recs'[n].data[t] = recs[n].data[t]]_vars

\* a second run of a recorder of proportional storage is part way through
C12_Witness ==
    /\ phase = "running"
    /\ run = 2
    /\ ts >= 0
    /\ ts < model.nts - 1
    /\ \E n \in DOMAIN recs :
          /\ recs[n].kind = "NumpyArrayStorageRecorder"
          /\ recs[n].proportional
          /\ recs[n].data[ts + 1][1] # recs[n].data[ts + 1][2]
          /\ recs[n].data[ts + 2][1] = F(0)

\* the classes whose values() reduces the buffer itself over time
PlainSeriesKinds == SeriesKinds \ CurveKinds

\* C13: values() of a time-series recorder is, per scenario, the temporal
\* Aggregator's reduction of the buffer's column; assigning agg_func leaves
\* values() and the temporal Aggregator as they were, and assigning
\* temporal_agg_func leaves the scenario Aggregator as constructed.
C13_TemporalReduction ==
    /\ \A k \in Current : \A n \in DOMAIN recs :
          (recs[n].kind \in PlainSeriesKinds /\ Read(k, n)) =>
              /\ observed[k][n].values.err \in {"none", "TypeError"}
              /\ observed[k][n].values.err = "none" =>
                    Len(observed[k][n].values.val) = NComb
              /\ \A s \in 1..NComb :
                    IsReductionOf(recs[n].temporal_aggregator,
                                  IF observed[k][n].values.err = "none"
                                  THEN Ok(observed[k][n].values.val[s])
                                  ELSE Raise(observed[k][n].values.err),
                                  Column(observed[k][n].data, s))
    /\ (phase = "requeried" /\ out.op = "agg_func") =>
          \A n \in DOMAIN recs : recs[n].kind \in PlainSeriesKinds =>
              observed[MaxRuns + 1][n].values = observed[MaxRuns][n].values
    /\ (phase \in {"reconfigured", "requeried"} /\ out.op = "temporal_agg_func") =>
          \A n \in DOMAIN recs :
              recs[n].scenario_aggregator = NewRecorder(recs[n].kind).scenario_aggregator

(***************************************************************************)
(* The duration-curve recorders (Spec).                                    *)
(***************************************************************************)
\* the curve a duration-curve recorder's finish() has stored
CurveOf(r) == IF r.kind = "StorageDurationCurveRecorder" THEN r.sdc ELSE r.fdc

\* C14: after finish(), the curve of a FlowDurationCurveRecorder or a
\* StorageDurationCurveRecorder has a row per percentile and a column per
\* scenario; per scenario the row of percentile 0 is the minimum of the
\* buffer over time, the row of percentile 100 the maximum, and the rows do
\* not decrease with the percentile; values() is the temporal Aggregator's
\* reduction of the curve's column.
C14_DurationCurve ==
    \A n \in DOMAIN recs :
        (/\ recs[n].kind \in {"FlowDurationCurveRecorder", "StorageDurationCurveRecorder"}
         /\ phase \in {"finished", "queried"}) =>
            LET r == recs[n]
                curve == CurveOf(r)
            IN  /\ Len(curve) = Len(r.percentiles)
                /\ \A k \in 1..Len(curve) :
                      /\ Len(curve[k]) = NComb
                      /\ \A s \in 1..NComb :
                            /\ r.percentiles[k] = 0 => IsMinOf(curve[k][s], Column(r.data, s))
                            /\ r.percentiles[k] = 100 => IsMaxOf(curve[k][s], Column(r.data, s))
                            /\ \A j \in 1..Len(curve) :
                                  r.percentiles[j] <= r.percentiles[k] =>
                                      FLeq(curve[j][s], curve[k][s])
                /\ phase = "queried" =>
                      /\ observed[run][n].values.err = "none"
                      /\ Len(observed[run][n].values.val) = NComb
                      /\ \A s \in 1..NComb :
                            IsReductionOf(r.temporal_aggregator,
                                          Ok(observed[run][n].values.val[s]),
                                          Column(curve, s))

\* the timestep indices of the model whose month is in months
InSeason(months) == {t \in 0..(model.nts - 1) : MonthOf(t) \in months}

\* the buffer a run of the model would fill if the node's flows were series
BufferOf(series) == [t \in 1..model.nts |-> EntityBuffer(series[t], NComb)]

\* C15: the curve and values() of a SeasonalFlowDurationCurveRecorder after
\* finish() are those of every run whose flows are the same at the timesteps
\* in season, whatever its flows at the timesteps out of season.
C15_SeasonOnly ==
    \A n \in DOMAIN recs :
        (recs[n].kind = "SeasonalFlowDurationCurveRecorder" /\ phase = "finished") =>
            \A series \in [1..model.nts -> 1..MaxSample] :
                (\A t \in InSeason(recs[n].months) : series[t + 1] = model.series[t + 1]) =>
                    LET other == FinishRec([recs[n] EXCEPT !.data = BufferOf(series)],
                                           ts, NComb).rec
                    IN  /\ other.fdc = recs[n].fdc
                        /\ ValuesOf([recs EXCEPT ![n] = other], n, entity)
                              = ValuesOf(recs, n, entity)

\* a recorder of the December flows has finished a run that went on into
\* January
C15_Witness ==
    /\ phase = "finished"
    /\ \E n \in DOMAIN recs :
          /\ recs[n].kind = "SeasonalFlowDurationCurveRecorder"
          /\ ~recs[n].ignore_nan
          /\ InSeason(recs[n].months) # {}
          /\ InSeason(recs[n].months) # 0..(model.nts - 1)
          /\ recs[n].fdc # <<>>

\* the lower and upper target of percentile k for scenario combination i
LowerAt(r, k, i) == r.lower_target_fdc[k][IF Len(r.lower_target_fdc[k]) = 1 THEN 1 ELSE i]
UpperAt(r, k, i) == r.upper_target_fdc[k][IF Len(r.upper_target_fdc[k]) = 1 THEN 1 ELSE i]

\* dev is max((actual - upper) / upper, (lower - actual) / lower, 0), for
\* positive targets
IsDeviation(dev, actual, lower, upper) ==
    LET udev == FDiv(FSub(actual, upper), upper)
        ldev == FDiv(FSub(lower, actual), lower)
    IN  /\ dev \in {udev, ldev, F(0)}
        /\ FLeq(udev, dev)
        /\ FLeq(ldev, dev)
        /\ FLeq(F(0), dev)

\* C16: after finish(), every cell of the deviations whose targets are
\* positive is max((actual - upper) / upper, (lower - actual) / lower, 0): it
\* is not negative, it is 0 exactly when lower <= actual <= upper and
\* positive otherwise.
C16_Deviation ==
    \A n \in DOMAIN recs :
        (/\ recs[n].kind = "FlowDurationCurveDeviationRecorder"
         /\ phase \in {"finished", "queried"}) =>
            LET r == recs[n]
            IN  \A k \in 1..Len(r.percentiles) : \A i \in 1..NComb :
                    LET lower == LowerAt(r, k, i)
                        upper == UpperAt(r, k, i)
                        actual == r.fdc[k][i]
                        dev == r.fdc_deviations[k][i]
                    IN  (FLess(F(0), lower) /\ FLess(F(0), upper)) =>
                            /\ IsDeviation(dev, actual, lower, upper)
                            /\ dev = F(0) <=> (FLeq(lower, actual) /\ FLeq(actual, upper))
                            /\ dev # F(0) => FLess(F(0), dev)

\* a run has finished with a cell above its upper target, a cell below its
\* lower target and a cell between them
C16_Witness ==
    /\ phase = "finished"
    /\ \E n \in DOMAIN recs :
          /\ recs[n].kind = "FlowDurationCurveDeviationRecorder"
          /\ \E k \in 1..Len(recs[n].percentiles), i \in 1..NComb :
                /\ FLess(F(0), LowerAt(recs[n], k, i))
                /\ FLess(UpperAt(recs[n], k, i), recs[n].fdc[k][i])
                /\ FLess(F(0), recs[n].fdc_deviations[k][i])
          /\ \E k \in 1..Len(recs[n].percentiles), i \in 1..NComb :
                /\ FLess(recs[n].fdc[k][i], LowerAt(recs[n], k, i))
                /\ FLess(F(0), UpperAt(recs[n], k, i))
                /\ FLess(F(0), recs[n].fdc_deviations[k][i])
          /\ \E k \in 1..Len(recs[n].percentiles), i \in 1..NComb :
                /\ FLess(F(0), LowerAt(recs[n], k, i))
                /\ recs[n].fdc_deviations[k][i] = F(0)

\* C17: finish() of a FlowDurationCurveDeviationRecorder does not fail; it
\* stores NaN in exactly the cells whose lower or upper target is zero, and
\* the deviation in every other cell.
C17_ZeroTargetIsNaN ==
    \A n \in DOMAIN recs :
        recs[n].kind = "FlowDurationCurveDeviationRecorder" =>
            /\ phase = "failed" => (run = 0 /\ ts = -1)
            /\ phase \in {"finished", "queried"} =>
                  LET r == recs[n]
                  IN  /\ Len(r.fdc_deviations) = Len(r.percentiles)
                      /\ \A k \in 1..Len(r.percentiles) :
                            /\ Len(r.fdc_deviations[k]) = NComb
                            /\ \A i \in 1..NComb :
                                  LET lower == LowerAt(r, k, i)
                                      upper == UpperAt(r, k, i)
                                  IN  IF lower = F(0) \/ upper = F(0)
                                      THEN IsNaN(r.fdc_deviations[k][i])
                                      ELSE IsDeviation(r.fdc_deviations[k][i],
                                                       r.fdc[k][i], lower, upper)

\* a run has finished with NaN in one cell of a column and a deviation in
\* another, and with a column that holds no NaN
C17_Witness ==
    /\ phase = "finished"
    /\ \E n \in DOMAIN recs :
          /\ recs[n].kind = "FlowDurationCurveDeviationRecorder"
          /\ Len(recs[n].lower_target_fdc[1]) = NComb
          /\ IsNaN(recs[n].fdc_deviations[1][1])
          /\ ~IsNaN(recs[n].fdc_deviations[2][1])
          /\ \A k \in 1..Len(recs[n].percentiles) : ~IsNaN(recs[n].fdc_deviations[k][2])

\* a target has more than one column, and not one per scenario combination
Mismatched(target) == Len(target[1]) > 1 /\ Len(target[1]) # NComb

\* C18: setup() of a FlowDurationCurveDeviationRecorder, with a scenario or
\* without, fails exactly when a target has more than one column and not as
\* many as there are scenarios; a single curve is accepted.
C18_TargetShape ==
    \A n \in DOMAIN recs :
        (/\ recs[n].kind = "FlowDurationCurveDeviationRecorder"
         /\ phase \notin {"created", "peeked"}) =>
            ((phase = "failed" /\ raised = "ValueError")
                <=> (Mismatched(recs[n].lower_target_fdc)
                        \/ Mismatched(recs[n].upper_target_fdc)))

(***************************************************************************)
(* The totals over a run (Spec).                                           *)
(***************************************************************************)
\* the flow of scenario combination s at timestep index t of the run
FlowAt(t, s) == EntityBuffer(model.series[t + 1], NComb)[s]

\* the sum over the timestep indices 0..(k - 1) of flow * factor * days
RECURSIVE TotalFlowTo(_, _, _)
TotalFlowTo(k, s, factor) ==
    IF k = 0 THEN F(0)
    ELSE FAdd(TotalFlowTo(k - 1, s, factor),
              FMul(FMul(FlowAt(k - 1, s), factor), F(Calendar.delta_days)))

\* the sum over the timestep indices 0..(k - 1) of (max_flow - flow) * days
RECURSIVE TotalDeficitTo(_, _)
TotalDeficitTo(k, s) ==
    IF k = 0 THEN F(0)
    ELSE FAdd(TotalDeficitTo(k - 1, s),
              FMul(FSub(MaxFlowOf(s), FlowAt(k - 1, s)), F(Calendar.delta_days)))

\* C19: after reset() and N after() calls, the vector values() of a
\* TotalFlowNodeRecorder returns holds, per scenario, the sum over the N
\* timesteps of flow * factor * days; finish() leaves it as it is, and
\* values() read after finish() returns it.
C19_TotalFlow ==
    \A n \in DOMAIN recs :
        recs[n].kind = "TotalFlowNodeRecorder" =>
            /\ phase \in {"running", "finished", "queried"} =>
                  /\ Len(recs[n].values) = NComb
                  /\ \A s \in 1..NComb :
                        recs[n].values[s] = TotalFlowTo(ts + 1, s, recs[n].factor)
            /\ phase = "queried" =>
                  observed[run][n].values
                      = Ok([s \in 1..NComb |-> TotalFlowTo(model.nts, s, recs[n].factor)])

\* a total with factor 2 over two timesteps or more has been read after
\* finish()
C19_Witness ==
    /\ phase = "queried"
    /\ model.nts >= 2
    /\ \E n \in DOMAIN recs :
          /\ recs[n].kind = "TotalFlowNodeRecorder"
          /\ recs[n].factor = F(2)
          /\ observed[run][n].values.err = "none"
          /\ \A s \in 1..NComb :
                FLess(FMul(F(2 * Calendar.delta_days), FlowAt(0, s)),
                      observed[run][n].values.val[s])

\* C20: after reset() and N after() calls, the vector values() of a
\* TotalDeficitNodeRecorder returns holds, per scenario, the sum over the N
\* timesteps of (max_flow - flow) * days; with flows that never exceed
\* max_flow no after() makes an entry smaller.
C20_TotalDeficit ==
    /\ [](\A n \in DOMAIN recs :
            recs[n].kind = "TotalDeficitNodeRecorder" =>
                /\ phase \in {"running", "finished", "queried"} =>
                      /\ Len(recs[n].values) = NComb
                      /\ \A s \in 1..NComb :
                            recs[n].values[s] = TotalDeficitTo(ts + 1, s)
                /\ phase = "queried" =>
                      observed[run][n].values
                          = Ok([s \in 1..NComb |-> TotalDeficitTo(model.nts, s)]))
    /\ [][After =>
            \A n \in DOMAIN recs :
                recs[n].kind = "TotalDeficitNodeRecorder" =>
                    \A s \in 1..NComb : FLeq(recs[n].values[s], recs'[n].values[s])]_vars

\* a deficit that grew at one timestep and stayed as it was at the next has
\* been read
C20_Witness ==
    /\ phase = "queried"
    /\ model.nts >= 2
    /\ \E n \in DOMAIN recs :
          /\ recs[n].kind = "TotalDeficitNodeRecorder"
          /\ observed[run][n].values.err = "none"
          /\ FLess(F(0), TotalDeficitTo(1, 1))
          /\ TotalDeficitTo(2, 1) = TotalDeficitTo(1, 1)
          /\ observed[run][n].values.val[1] = TotalDeficitTo(model.nts, 1)

(***************************************************************************)
(* The means, frequencies, minima and counts over a run (Spec).            *)
(***************************************************************************)
\* the sum over the timestep indices 0..(k - 1) of value * factor
RECURSIVE ScaledSumTo(_, _, _)
ScaledSumTo(k, s, factor) ==
    IF k = 0 THEN F(0)
    ELSE FAdd(ScaledSumTo(k - 1, s, factor), FMul(FlowAt(k - 1, s), factor))

DeficitSteps(s) ==
    {t \in 0..(model.nts - 1) : FLess(Epsilon, FAbs(FSub(FlowAt(t, s), MaxFlowOf(s))))}

VolumesTo(t, s) == [k \in 1..(t + 1) |-> FlowAt(k - 1, s)]

\* C23: reset() of a MinimumVolumeStorageRecorder sets every scenario's value
\* to +infinity; after each after() the value of a scenario is the minimum of
\* its volumes at the timesteps since reset(), and no after() makes it larger.
C23_MinimumVolume ==
    /\ [](\A n \in DOMAIN recs :
            (recs[n].kind = "MinimumVolumeStorageRecorder" /\ phase = "running") =>
                /\ Len(recs[n].values) = NComb
                /\ \A s \in 1..NComb :
                      IF ts = -1 THEN recs[n].values[s] = PInf
                      ELSE IsMinOf(recs[n].values[s], VolumesTo(ts, s)))
    /\ [][After =>
            \A n \in DOMAIN recs :
                recs[n].kind = "MinimumVolumeStorageRecorder" =>
                    \A s \in 1..NComb : FLeq(recs'[n].values[s], recs[n].values[s])]_vars

\* a second run is under way: reset() has replaced the minimum of the first
\* run, the first volume was taken and a later, larger one was not
C23_Witness ==
    /\ phase = "running"
    /\ run = 2
    /\ ts >= 1
    /\ \E n \in DOMAIN recs :
          /\ recs[n].kind = "MinimumVolumeStorageRecorder"
          /\ FLess(recs[n].values[1], FlowAt(ts, 1))
          /\ recs[n].values[1] # PInf

\* the timestep indices 0..t at which the volume of scenario combination s is
\* at or below the threshold
LowSteps(t, s, threshold) == {k \in 0..t : FLeq(FlowAt(k, s), F(threshold))}

\* C24: within a run the value of a MinimumThresholdVolumeStorageRecorder is
\* 0 or 1 per scenario: 0 after reset(), 1 after an after() exactly when the
\* volume was at or below the threshold at a timestep since reset(); after()
\* and finish() never take it from 1 to another value.
C24_ThresholdLatch ==
    /\ [](\A n \in DOMAIN recs :
            (/\ recs[n].kind = "MinimumThresholdVolumeStorageRecorder"
             /\ phase \in {"running", "finished", "queried"}) =>
                /\ Len(recs[n].values) = NComb
                /\ \A s \in 1..NComb :
                      /\ recs[n].values[s] \in {F(0), F(1)}
                      /\ recs[n].values[s] = F(1)
                            <=> LowSteps(ts, s, recs[n].threshold) # {})
    /\ [][(After \/ Finish) =>
            \A n \in DOMAIN recs :
                recs[n].kind = "MinimumThresholdVolumeStorageRecorder" =>
                    \A s \in 1..NComb :
                        recs[n].values[s] = F(1) => recs'[n].values[s] = F(1)]_vars

\* in a second run the volume fell to the threshold, then rose above it, and
\* the value is 1 for that scenario and 0 for another
C24_Witness ==
    /\ phase = "finished"
    /\ run = 2
    /\ \E n \in DOMAIN recs :
          /\ recs[n].kind = "MinimumThresholdVolumeStorageRecorder"
          /\ recs[n].values[1] = F(1)
          /\ recs[n].values[NComb] = F(0)
          /\ FLess(F(recs[n].threshold), FlowAt(ts, 1))

\* the calendar years of the timestep indices 0..t
YearsTo(t) == {YearOf(k) : k \in 0..t}

\* the largest index of scenario combination s in year y among the timestep
\* indices 0..t
YearMax(y, t, s) ==
    LET seen == {IndexOf(FlowAt(k, s)) : k \in {j \in 0..t : YearOf(j) = y}}
    IN  CHOOSE m \in seen : \A x \in seen : x <= m

\* C25: after reset(), after() at each timestep and finish(), values() of an
\* AnnualCountIndexParameterRecorder holds, per scenario, the number of the
\* calendar years of the run, the last one included, in which the largest
\* index was at or above the threshold; the first after() of a run leaves
\* the count as it is.
C25_AnnualCount ==
    /\ [](\A n \in DOMAIN recs :
            (/\ recs[n].kind = "AnnualCountIndexParameterRecorder"
             /\ phase \in {"finished", "queried"}) =>
                /\ Len(recs[n].count) = NComb
                /\ \A s \in 1..NComb :
                      recs[n].count[s]
                          = Cardinality({y \in YearsTo(ts) :
                                            YearMax(y, ts, s) >= recs[n].threshold})
                /\ phase = "queried" =>
                      observed[run][n].values
                          = OkV([s \in 1..NComb |-> F(recs[n].count[s])]))
    /\ [][(After /\ ts = -1) =>
            \A n \in DOMAIN recs :
                recs[n].kind = "AnnualCountIndexParameterRecorder" =>
                    recs'[n].count = recs[n].count]_vars

\* a run over two calendar years has been read: the index met the threshold
\* in the first year and not in the second
C25_Witness ==
    /\ phase = "queried"
    /\ Cardinality(YearsTo(ts)) = 2
    /\ \E n \in DOMAIN recs :
          /\ recs[n].kind = "AnnualCountIndexParameterRecorder"
          /\ recs[n].threshold > 0
          /\ YearMax(YearOf(0), ts, 1) >= recs[n].threshold
          /\ YearMax(YearOf(ts), ts, 1) < recs[n].threshold
          /\ observed[run][n].values.val[1] = F(1)

\* the sum over the timestep indices 0..(k - 1) of value * factor, times the
\* days of the timestep when integrate is set
RECURSIVE TotalParameterTo(_, _, _, _)
TotalParameterTo(k, s, factor, integrate) ==
    IF k = 0 THEN F(0)
    ELSE FAdd(TotalParameterTo(k - 1, s, factor, integrate),
              IF integrate
              THEN FMul(FMul(FlowAt(k - 1, s), factor), F(Calendar.delta_days))
              ELSE FMul(FlowAt(k - 1, s), factor))

\* C26: after reset() and N after() calls, values() of a
\* TotalParameterRecorder holds, per scenario, the sum over the timesteps of
\* value * factor, times the days of the timestep when integrate is set; no
\* after() changes the recorder's factor.
C26_TotalParameter ==
    /\ [](\A n \in DOMAIN recs :
            (/\ recs[n].kind = "TotalParameterRecorder"
             /\ phase \in {"running", "finished", "queried"}) =>
                /\ Len(recs[n].values) = NComb
                /\ \A s \in 1..NComb :
                      recs[n].values[s]
                          = TotalParameterTo(ts + 1, s, recs[n].factor, recs[n].integrate)
                /\ phase = "queried" => observed[run][n].values = OkV(recs[n].values))
    /\ [][After =>
            \A n \in DOMAIN recs :
                recs[n].kind = "TotalParameterRecorder" =>
                    recs'[n].factor = recs[n].factor]_vars

\* an integrating total with factor 2 over two timesteps or more has been
\* read
C26_Witness ==
    /\ phase = "queried"
    /\ model.nts >= 2
    /\ \E n \in DOMAIN recs :
          /\ recs[n].kind = "TotalParameterRecorder"
          /\ recs[n].integrate
          /\ recs[n].factor = F(2)
          /\ observed[run][n].values.err = "none"
          /\ FLess(FMul(F(2 * Calendar.delta_days), FlowAt(0, 1)),
                   observed[run][n].values.val[1])

(***************************************************************************)
(* AggregatedRecorders and their children (SpecTree).                      *)
(***************************************************************************)
\* the functions AggregatedRecorder.values() computes itself
BuiltIn == {SUM, PRODUCT, MEAN, MAX, MIN}

\* the values() the children of the AggregatedRecorder n returned at the
\* reading k, for scenario combination s
ChildValues(k, n, s) ==
    [c \in DOMAIN recs[n].recorders |-> observed[k][recs[n].recorders[c]].values.val[s]]

\* C27: values() of an AggregatedRecorder whose function is sum, product,
\* mean, max or min is, per scenario, the sum, the product, the sum divided
\* by the number of children, the largest and the smallest of its children's
\* values(); it is the same for every order of the children.
C27_CombinesChildren ==
    \A n \in DOMAIN recs :
        (/\ recs[n].kind = "AggregatedRecorder"
         /\ recs[n].recorder_agg_func \in BuiltIn
         /\ phase = "queried") =>
            /\ observed[run][n].values.err = "none"
            /\ Len(observed[run][n].values.val) = NComb
            /\ \A s \in 1..NComb :
                  IsClosedForm(recs[n].recorder_agg_func,
                               observed[run][n].values.val[s], ChildValues(run, n, s))
            /\ \A order \in Reorderings(recs[n].recorders) :
                  ValuesOf([recs EXCEPT ![n].recorders = order], n, entity)
                      = observed[run][n].values

\* a mean over two children whose values differ has been read
C27_Witness ==
    /\ phase = "queried"
    /\ \E n \in DOMAIN recs :
          /\ recs[n].kind = "AggregatedRecorder"
          /\ recs[n].recorder_agg_func = MEAN
          /\ observed[run][n].values.err = "none"
          /\ ChildValues(run, n, 1)[1] # ChildValues(run, n, 1)[2]
          /\ observed[run][n].values.val[1] \notin Range(ChildValues(run, n, 1))

\* C28: an AggregatedRecorder constructed without recorder_agg_func combines
\* its children with the scenario aggregation function; constructed without
\* agg_func too, it is constructed and both functions are the mean.
C28_DefaultsToAggFunc ==
    (out.op = "__init__" /\ out.arg.recorder_agg_func = PyAbsent) =>
        /\ phase # "failed"
        /\ \A n \in DOMAIN recs :
              recs[n].kind = "AggregatedRecorder" =>
                  /\ recs[n].recorder_agg_func = recs[n].scenario_aggregator.func
                  /\ out.arg.agg_func = PyAbsent =>
                        /\ recs[n].recorder_agg_func = MEAN
                        /\ recs[n].scenario_aggregator.func = MEAN

\* the leaves under the recorder called name, one entry for every path
RECURSIVE LeafPaths(_, _)
LeafPaths(rs, name) ==
    IF rs[name].kind # "AggregatedRecorder" THEN <<name>>
    ELSE LET below == [c \in DOMAIN rs[name].recorders |->
                          LeafPaths(rs, rs[name].recorders[c])]
             RECURSIVE Flat(_)
             Flat(k) == IF k = 0 THEN <<>> ELSE Flat(k - 1) \o below[k]
         IN  Flat(Len(below))

\* C29: values() of an AggregatedRecorder over AggregatedRecorders is a
\* vector with an entry per scenario combination; with sum, product, max or
\* min at every level the root's entry is that function of the values() of
\* the leaves, a leaf taken once for every path that reaches it.
C29_TreeFold ==
    (/\ phase = "queried"
     /\ "root" \in DOMAIN recs
     /\ \A n \in DOMAIN recs :
           recs[n].kind = "AggregatedRecorder" =>
               recs[n].recorder_agg_func \in BuiltIn) =>
        /\ observed[run].root.values.err = "none"
        /\ Len(observed[run].root.values.val) = NComb
        /\ (/\ recs.root.recorder_agg_func \in {SUM, PRODUCT, MAX, MIN}
            /\ \A n \in DOMAIN recs :
                  recs[n].kind = "AggregatedRecorder" =>
                      recs[n].recorder_agg_func = recs.root.recorder_agg_func) =>
               \A s \in 1..NComb :
                   LET leaves == LeafPaths(recs, "root")
                   IN  IsClosedForm(recs.root.recorder_agg_func,
                                    observed[run].root.values.val[s],
                                    [k \in DOMAIN leaves |->
                                        observed[run][leaves[k]].values.val[s]])

\* a tree of minima has been read in which the leaf reached once is the
\* smallest
C29_Witness ==
    /\ phase = "queried"
    /\ "root" \in DOMAIN recs
    /\ recs.root.recorder_agg_func = MIN
    /\ recs.inner.recorder_agg_func = MIN
    /\ LeafPaths(recs, "root") = <<"a", "b", "a">>
    /\ observed[run].root.values.err = "none"
    /\ FLess(observed[run].b.values.val[1], observed[run].a.values.val[1])
    /\ observed[run].root.values.val[1] = observed[run].b.values.val[1]

\* C30: values() and aggregated_value() of the recorders, those of an
\* AggregatedRecorder among them, leave every recorder as it is, so that
\* values() of every child is what it was before.
C30_ReadLeavesChildren ==
    [][(Query \/ Requery) =>
          /\ recs' = recs
          /\ \A n \in DOMAIN recs :
                ValuesOf(recs', n, entity') = ValuesOf(recs, n, entity)]_vars

\* the tree has been read a second time and the root returned a vector both
\* times
C30_Witness ==
    /\ phase = "requeried"
    /\ "root" \in DOMAIN recs
    /\ observed[MaxRuns].root.values.err = "none"
    /\ observed[MaxRuns].root.aggregated.err = "none"
    /\ observed[MaxRuns + 1].root.values.err = "none"
    /\ observed[MaxRuns + 1].a.values = observed[MaxRuns].a.values
    /\ observed[MaxRuns + 1].a.values.val[1] # F(0)

(***************************************************************************)
(* Construction of the duration-curve recorders (SpecCurve).               *)
(***************************************************************************)
\* a constructor that drops the deprecated key
CurveInitMutDropKey(r, kwargs) ==
    LET res == FuncSet(NewAggregator,
                       IF kwargs.temporal_agg_func.type # "absent"
                       THEN kwargs.temporal_agg_func ELSE PyStr("mean"))
    IN  [rec |-> IF res.err = "none" THEN [r EXCEPT !.temporal_aggregator = res.agg] ELSE r,
         err |-> res.err,
         warned |-> kwargs.deprecated.type # "absent"]

\* FlowDurationCurveRecorder(model, node, percentiles, **kwargs) and
\* StorageDurationCurveRecorder(model, node, percentiles, **kwargs):
\* kwargs.deprecated is fdc_agg_func for the former and sdc_agg_func for the
\* latter; warned tells whether warnings.warn was called
CurveInit(r, kwargs) ==
    IF kwargs.deprecated.type # "absent" /\ kwargs.temporal_agg_func.type # "absent"
    THEN [rec |-> r, err |-> "ValueError", warned |-> TRUE]
    ELSE LET temporal_agg_func ==
                 IF kwargs.deprecated.type # "absent" THEN kwargs.deprecated
                 ELSE IF kwargs.temporal_agg_func.type # "absent"
                 THEN kwargs.temporal_agg_func
                 ELSE PyStr("mean")
             res == FuncSet(NewAggregator, temporal_agg_func)
         IN  [rec |-> IF res.err = "none" THEN [r EXCEPT !.temporal_aggregator = res.agg]
                      ELSE r,
              err |-> res.err,
              warned |-> kwargs.deprecated.type # "absent"]

\* the values the two keys are passed
CurveFuncArgs ==
    {PyAbsent, PyStr("mean"), PyStr("max"), PyStr("average"), PyCallable("np.ptp"),
     PyOther("None")}

CurveKwargs == [deprecated : CurveFuncArgs, temporal_agg_func : CurveFuncArgs]

\* the recorder before its constructor has run
CurveBlank(kind) == [NewRecorder(kind) EXCEPT !.percentiles = CurvePercentiles]

InitCurve ==
    /\ model \in Models
    /\ recs \in {[r |-> CurveBlank(kind)]
                 : kind \in {"FlowDurationCurveRecorder", "StorageDurationCurveRecorder"}}
    /\ phase = "new"
    /\ run = 0
    /\ ts = -1
    /\ entity = Const(NumScenarios, F(0))
    /\ raised = "none"
    /\ observed = [k \in 1..(MaxRuns + 1) |-> [n \in DOMAIN recs |-> NoResult]]
    /\ out = NoCall

ConstructCurve ==
    /\ phase = "new"
    /\ \E kwargs \in CurveKwargs :
          LET res == CurveInit(recs.r, kwargs)
          IN  /\ recs' = [recs EXCEPT !.r = res.rec]
              /\ raised' = res.err
              /\ phase' = IF res.err = "none" THEN "created" ELSE "failed"
              /\ out' = [NoCall EXCEPT !.op = "__init__",
                                       !.arg = [kwargs |-> kwargs, warned |-> res.warned]]
    /\ UNCHANGED <<model, run, ts, entity, observed>>

NextCurve == ConstructCurve \/ Next

SpecCurve == InitCurve /\ [][NextCurve]_vars

\* func is a token of the table or a callable
Accepted(func) ==
    \/ func.type = "callable"
    \/ func.type = "str" /\ Lower(func.v) \in DOMAIN AggFuncLookup

C32_ReadNeedsReset ==
    phase = "peeked" =>
        \A n \in DOMAIN recs :
            /\ observed[1][n].values.err # "none"
            /\ observed[1][n].aggregated.err # "none"

(***************************************************************************)
(* The rolling recorders' write cursor (Spec).                             *)
(***************************************************************************)
\* the window of a rolling recorder
WindowOf(r) == IF r.kind = "RollingWindowParameterRecorder" THEN r.window ELSE r.timesteps

\* C33: from setup() on the write cursor of a RollingWindowParameterRecorder
\* and of a RollingMeanFlowNodeRecorder with a window W >= 1 is at least 0
\* and below W, and after reset() and k after() calls it is k mod W.
C33_Cursor ==
    \A n \in DOMAIN recs :
        (/\ recs[n].kind \in {"RollingWindowParameterRecorder",
                              "RollingMeanFlowNodeRecorder"}
         /\ phase \in {"setup", "running", "finished", "queried"}
         /\ WindowOf(recs[n]) >= 1) =>
            /\ 0 <= recs[n].position
            /\ recs[n].position < WindowOf(recs[n])
            /\ phase = "running" => recs[n].position = (ts + 1) % WindowOf(recs[n])

(***************************************************************************)
(* The duration curve between two runs (Spec).                             *)
(***************************************************************************)
\* C34: reset(), after() and values() leave the curve of a duration-curve
\* recorder as finish() computed it; during the next run the curve and
\* values() are those of the last completed run.
C34_CurveKeptUntilFinish ==
    /\ [][(Reset \/ After \/ Query) =>
            \A n \in DOMAIN recs :
                recs[n].kind \in CurveKinds =>
                    /\ recs'[n].fdc = recs[n].fdc
                    /\ recs'[n].sdc = recs[n].sdc
                    /\ recs'[n].fdc_deviations = recs[n].fdc_deviations]_vars
    /\ [](\A n \in DOMAIN recs :
            (recs[n].kind \in CurveKinds /\ phase = "running" /\ run >= 2) =>
                /\ ValuesOf(recs, n, entity) = observed[run - 1][n].values
                /\ CurveOf(recs[n]) # <<>>)

\* a second run is under way and values() is still the vector read after the
\* first run, whose buffer reset() and after() have since overwritten
C34_Witness ==
    /\ phase = "running"
    /\ run = 2
    /\ ts >= 0
    /\ \E n \in DOMAIN recs :
          /\ recs[n].kind = "StorageDurationCurveRecorder"
          /\ recs[n].sdc # <<>>
          /\ observed[1][n].values.err = "none"
          /\ ValuesOf(recs, n, entity) = observed[1][n].values
          /\ recs[n].data # observed[1][n].data

(***************************************************************************)
(* load_recorder (SpecLoad).  A type tag is a sequence of words, given     *)
(* here in lower case, and cased tells whether the tag is written with     *)
(* capitals; the registry is keyed by the lower-case class names, each a   *)
(* stem followed by the word "recorder".                                   *)
(***************************************************************************)
\* recorder_registry, by the stem of the key
Registry ==
    [aggregated |-> "AggregatedRecorder",
     node |-> "NodeRecorder",
     storage |-> "StorageRecorder",
     parameter |-> "ParameterRecorder",
     indexparameter |-> "IndexParameterRecorder",
     numpyarraynode |-> "NumpyArrayNodeRecorder",
     flowdurationcurve |-> "FlowDurationCurveRecorder",
     seasonalflowdurationcurve |-> "SeasonalFlowDurationCurveRecorder",
     flowdurationcurvedeviation |-> "FlowDurationCurveDeviationRecorder",
     numpyarraystorage |-> "NumpyArrayStorageRecorder",
     storagedurationcurve |-> "StorageDurationCurveRecorder",
     numpyarraylevel |-> "NumpyArrayLevelRecorder",
     numpyarrayarea |-> "NumpyArrayAreaRecorder",
     numpyarrayparameter |-> "NumpyArrayParameterRecorder",
     numpyarrayindexparameter |-> "NumpyArrayIndexParameterRecorder",
     rollingwindowparameter |-> "RollingWindowParameterRecorder",
     rollingmeanflownode |-> "RollingMeanFlowNodeRecorder",
     totaldeficitnode |-> "TotalDeficitNodeRecorder",
     totalflownode |-> "TotalFlowNodeRecorder",
     meanflownode |-> "MeanFlowNodeRecorder",
     deficitfrequencynode |-> "DeficitFrequencyNodeRecorder",
     baseconstantstorage |-> "BaseConstantStorageRecorder",
     minimumvolumestorage |-> "MinimumVolumeStorageRecorder",
     minimumthresholdvolumestorage |-> "MinimumThresholdVolumeStorageRecorder",
     annualcountindexparameter |-> "AnnualCountIndexParameterRecorder",
     totalparameter |-> "TotalParameterRecorder",
     meanparameter |-> "MeanParameterRecorder"]

\* str.lower()
LowerTag(tag) == [tag EXCEPT !.cased = FALSE]

\* name.endswith("recorder")
EndsWithRecorder(name) ==
    name.words # <<>> /\ name.words[Len(name.words)] = "recorder"

\* name.replace("recorder", ""): every occurrence goes
RECURSIVE Without(_)
Without(words) ==
    IF words = <<>> THEN <<>>
    ELSE IF Head(words) = "recorder" THEN Without(Tail(words))
    ELSE <<Head(words)>> \o Without(Tail(words))

\* name in recorder_registry
InRegistry(name) ==
    /\ ~name.cased
    /\ Len(name.words) = 2
    /\ name.words[1] \in DOMAIN Registry
    /\ name.words[2] = "recorder"

\* the class a type tag resolves to, "None" for NotImplementedError
ResolveClass(recorder_type) ==
    LET name == LowerTag(recorder_type)
        other == IF EndsWithRecorder(name) THEN [name EXCEPT !.words = Without(name.words)]
                 ELSE [name EXCEPT !.words = name.words \o <<"recorder">>]
    IN  IF InRegistry(name) THEN Registry[name.words[1]]
        ELSE IF InRegistry(other) THEN Registry[other.words[1]]
        ELSE "None"

\* what load_recorder returns: None, or the recorder of the model called name
NoRecorder == [is |-> "None", name |-> "None", kind |-> "None"]
TheRecorder(rs, name) == [is |-> "recorder", name |-> name, kind |-> rs[name].kind]

\* the model's recorders with one more, called name
WithRecorder(rs, name, r) ==
    [n \in DOMAIN rs \cup {name} |-> IF n = name THEN r ELSE rs[n]]

\* cls.load(model, data): the recorder is constructed, and so added to the
\* model's recorders; AggregatedRecorder.load looks its children up first and
\* has no return statement
ClassLoad(rs, kind, data) ==
    IF kind = "AggregatedRecorder"
    THEN IF \E k \in DOMAIN data.recorders : data.recorders[k] \notin DOMAIN rs
         THEN [err |-> "KeyError", val |-> NoRecorder, recs |-> rs]
         ELSE LET res == AggregatedInit([NewRecorder(kind) EXCEPT
                                            !.recorders = data.recorders],
                                        [agg_func |-> data.agg_func,
                                         recorder_agg_func |-> PyAbsent])
              IN  IF res.err # "none"
                  THEN [err |-> res.err, val |-> NoRecorder, recs |-> rs]
                  ELSE [err |-> "none", val |-> NoRecorder,
                        recs |-> WithRecorder(rs, data.name, res.rec)]
    ELSE LET rs1 == WithRecorder(rs, data.name, NewRecorder(kind))
         IN  [err |-> "none", val |-> TheRecorder(rs1, data.name), recs |-> rs1]

\* load_recorder(model, data) for a data that is a dict
LoadDict(rs, data) ==
    LET kind == ResolveClass(data.type)
    IN  IF kind = "None"
        THEN [err |-> "NotImplementedError", val |-> NoRecorder, recs |-> rs]
        ELSE ClassLoad(rs, kind, data)

\* load_recorder(model, data): m.loading says whether the model has the
\* attribute _recorders_to_load, m.pending is that dict
LoadRecorder(rs, m, data) ==
    IF data.is = "str"
    THEN IF data.name \in DOMAIN rs
         THEN [err |-> "none", val |-> TheRecorder(rs, data.name), recs |-> rs]
         ELSE IF m.loading /\ data.name \in DOMAIN m.pending
         THEN LoadDict(rs, m.pending[data.name])
         ELSE [err |-> "KeyError", val |-> NoRecorder, recs |-> rs]
    ELSE LoadDict(rs, data)

\* the type tags: a class name or its stem, in lower case or as written, and
\* tags of no class
TypeTags ==
    {[words |-> w, cased |-> c]
     : w \in {<<stem, "recorder">> : stem \in DOMAIN Registry}
             \cup {<<stem>> : stem \in DOMAIN Registry}
             \cup {<<"recorder">>, <<"total", "flow">>, <<"node", "recorder", "recorder">>},
       c \in BOOLEAN}

\* a dict of a recorder called name
DictOf(tag, name, agg_func) ==
    [is |-> "dict", type |-> tag, name |-> name, recorders |-> <<"a">>,
     agg_func |-> agg_func]

\* a reference by name
NameOf(name) ==
    [is |-> "str", type |-> [words |-> <<>>, cased |-> FALSE], name |-> name,
     recorders |-> <<>>, agg_func |-> PyAbsent]

\* what load_recorder is handed: a name that is loaded (a), pending (p) or
\* neither (x), or a dict
LoadInputs ==
    {NameOf(n) : n \in {"a", "p", "x"}}
    \cup {DictOf(tag, "r", f) : tag \in TypeTags, f \in {PyAbsent, PyStr("sum")}}

\* the models: with a loaded, and p pending while the model is being loaded
LoadModels ==
    {[loading |-> FALSE, pending |-> [p |-> DictOf(tag, "p", PyStr("sum"))]]
     : tag \in {[words |-> <<"node">>, cased |-> FALSE]}}
    \cup {[loading |-> TRUE, pending |-> [p |-> DictOf(tag, "p", PyStr("sum"))]]
          : tag \in {[words |-> <<"totalflow">>, cased |-> TRUE],
                     [words |-> <<"totalflow", "recorder">>, cased |-> FALSE],
                     [words |-> <<"aggregated", "recorder">>, cased |-> TRUE],
                     [words |-> <<"flow">>, cased |-> FALSE]}}

InitLoad ==
    /\ model \in LoadModels
    /\ recs = [a |-> NewRecorder("MinimumVolumeStorageRecorder")]
    /\ phase = "created"
    /\ run = 0
    /\ ts = -1
    /\ entity = Const(NumScenarios, F(0))
    /\ raised = "none"
    /\ observed = <<>>
    /\ out = NoCall

\* load_recorder(model, data)
Load ==
    /\ phase = "created"
    /\ \E data \in LoadInputs :
          LET res == LoadRecorder(recs, model, data)
          IN  /\ recs' = res.recs
              /\ raised' = res.err
              /\ out' = [NoCall EXCEPT !.op = "load_recorder", !.arg = data,
                                       !.res = [err |-> res.err, val |-> res.val]]
              /\ phase' = IF res.err = "none" THEN "loaded" ELSE "failed"
    /\ UNCHANGED <<model, run, ts, entity, observed>>


SpecLoad == InitLoad /\ [][Load]_vars

\* the tag names the class of the stem: in any case, as the class name, as
\* the class name without its suffix "recorder", or as the class name with
\* one more suffix "recorder"
Names(tag, stem) ==
    tag.words \in {<<stem, "recorder">>, <<stem>>, <<stem, "recorder", "recorder">>}

\* C35: load_recorder resolves a type tag against the registry whatever its
\* case, also with the suffix "recorder" added or removed, and returns a
\* recorder of the resolved class; a tag of no class, and a name that is
\* neither loaded nor pending, end in an error and no recorder; the name of
\* a loaded recorder returns that recorder and constructs none.
C35_LoadResolves ==
    [][Load =>
          LET data == out'.arg
              res == out'.res
          IN  /\ data.is = "dict" =>
                    IF \E stem \in DOMAIN Registry : Names(data.type, stem)
                    THEN /\ res.err # "NotImplementedError"
                         /\ res.err = "none" =>
                               /\ res.val.is = "recorder"
                               /\ Names(data.type,
                                        CHOOSE stem \in DOMAIN Registry :
                                            Registry[stem] = res.val.kind)
                               /\ res.val.name \in DOMAIN recs'
                               /\ recs'[res.val.name].kind = res.val.kind
                    ELSE /\ res.err # "none"
                         /\ res.val = NoRecorder
                         /\ recs' = recs
              /\ (/\ data.is = "str"
                  /\ data.name \notin DOMAIN recs
                  /\ ~(model.loading /\ data.name \in DOMAIN model.pending)) =>
                    /\ res.err # "none"
                    /\ res.val = NoRecorder
                    /\ recs' = recs
              /\ (data.is = "str" /\ data.name \in DOMAIN recs) =>
                    /\ res.err = "none"
                    /\ res.val = TheRecorder(recs, data.name)
                    /\ recs' = recs]_vars

\* C40: load_recorder handed a type-tagged dict returns the recorder the
\* resolved class constructed, whatever the class; it does not return None
\* when a recorder was constructed.
C40_LoadReturnsInstance ==
    [][(Load /\ out'.arg.is = "dict" /\ recs' # recs) =>
          /\ out'.res.err = "none"
          /\ out'.res.val.is = "recorder"
          /\ out'.res.val.name \in DOMAIN recs' \ DOMAIN recs
          /\ recs'[out'.res.val.name].kind = out'.res.val.kind]_vars

(***************************************************************************)
(* An AggregatedRecorder over one child or none (SpecChild).               *)
(***************************************************************************)
\* the child is a minimum, a total, or the deviations from a target that is
\* zero at one percentile, whose values() is NaN
InitChild ==
    /\ model \in Models
    /\ recs \in {[a |-> child,
                  root |-> [NewRecorder("AggregatedRecorder") EXCEPT
                               !.recorders = recorders,
                               !.recorder_agg_func = AggFuncLookup[tok]]]
                 : child \in
                       {NewRecorder("MinimumVolumeStorageRecorder"),
                        [NewRecorder("TotalFlowNodeRecorder") EXCEPT !.factor = F(2)],
                        [NewRecorder("FlowDurationCurveDeviationRecorder") EXCEPT
                            !.percentiles = CurvePercentiles,
                            !.lower_target_fdc = TargetOf(0, TargetLevel, 1),
                            !.upper_target_fdc = TargetCurve(TargetLevel)]},
                   recorders \in {<<>>, <<"a">>},
                   tok \in {"min", "max", "sum"}}
    /\ phase = "created"
    /\ run = 0
    /\ ts = -1
    /\ entity = Const(NumScenarios, F(0))
    /\ raised = "none"
    /\ observed = [k \in 1..(MaxRuns + 1) |-> [n \in DOMAIN recs |-> NoResult]]
    /\ out = NoCall

SpecChild == InitChild /\ [][Next]_vars

\* C36: values() of an AggregatedRecorder without children raises and does
\* not return a vector; with one child and min or max it returns what the
\* child's values() returns.
C36_OneChildOrNone ==
    phase = "queried" =>
        /\ recs.root.recorders = <<>> => observed[run].root.values.err # "none"
        /\ (Len(recs.root.recorders) = 1 /\ recs.root.recorder_agg_func \in {MIN, MAX}) =>
              observed[run].root.values = observed[run][recs.root.recorders[1]].values

(***************************************************************************)
(* Failed assignments and accepted tokens.                                 *)
(***************************************************************************)
\* C37 (SpecAgg): an assignment of the Aggregator's func that raises leaves
\* the Aggregator as it was, and a reduction gives what it gave before the
\* assignment.
C37_FailedAssignmentKeeps ==
    [][(AssignAggFunc /\ raised' # "none") =>
          /\ recs'.r.scenario_aggregator = recs.r.scenario_aggregator
          /\ Aggregate1d(recs'.r.scenario_aggregator, entity, FALSE)
                = Aggregate1d(recs.r.scenario_aggregator, entity, FALSE)]_vars

\* C38 (SpecTree): values() of an AggregatedRecorder constructed with a token
\* of the table as its recorder aggregation function returns a vector with
\* an entry per scenario combination once its children have values.
C38_TokensReturnVector ==
    phase = "queried" =>
        \A n \in DOMAIN recs :
            (/\ recs[n].kind = "AggregatedRecorder"
             /\ recs[n].recorder_user_func = "None"
             /\ \A k \in DOMAIN recs[n].recorders :
                   recs[recs[n].recorders[k]].kind # "AggregatedRecorder" =>
                       observed[run][recs[n].recorders[k]].values.err = "none") =>
                /\ observed[run][n].values.err = "none"
                /\ Len(observed[run][n].values.val) = NComb

=============================================================================
